---------------------------- MODULE Spec2Model ----------------------------
(***************************************************************************)
(* A model of the Blob serialisation engine of src/lib/Blob.hpp.           *)
(*                                                                         *)
(* The file holds two revisions of class Blob: the pointer-dictionary      *)
(* revision (MSERDES/RSERDES, mind/remind, lines 244-668) and the          *)
(* callback revision (SERDES with pointer providers, restore_raw, lines    *)
(* 853-1163).  The byte buffer, the cursor, the counter codec and the      *)
(* typed append/restore overloads are the same in both.                    *)
(*                                                                         *)
(* Representation.  A scalar is modelled by its memory image: the sequence *)
(* of its bytes, least significant first (the code copies the native       *)
(* representation; the model fixes little-endian, LP64).  A size_t is      *)
(* therefore 8 bytes and an unsigned 4 bytes, and no 64-bit arithmetic is   *)
(* needed.  An address is a sequence of naturals (an object followed by    *)
(* the indices of the member reached); the null pointer is the empty       *)
(* sequence.                                                               *)
(***************************************************************************)
EXTENDS Integers, Sequences, FiniteSets, TLC

VARIABLES
    blob_,      \* std::vector<uint8_t> blob_
    offset_,    \* size_t offset_ (kept as a natural: it never leaves the buffer by more than a scalar)
    mpu_,       \* std::map<void*, uint> mpu_ : address -> uid
    vp_,        \* std::vector<void*> vp_ : uid -> address
    mpl_,       \* std::map<uint, std::set<void*>> mpl_ : uid -> pointer locations
    cptr_,      \* std::vector<const void*> cptr_ : host pointers for append
    vptr_,      \* std::vector<void*> vptr_ : host pointers for restore
    mem,        \* the memory the Blob reads from and writes to: object -> value
    err,        \* "none", or the exception that ended the operation
    op,         \* the operation performed last, with its arguments
    ret,        \* what the last operation returned
    pc,         \* position of the calling test program
    typ         \* the type of the value the calling program serialises

vars ==
    <<blob_, offset_, mpu_, vp_, mpl_, cptr_, vptr_, mem, err, op, ret, pc, typ>>

-----------------------------------------------------------------------------
(* Bounds of the model. *)

\* longest byte buffer an action may build or be seeded with
MaxBlob == 4
\* most elements of a container, most members of a composite
MaxLen == 2

\* byte values the inputs are drawn from: the four valid counter tags' low
\* values, an invalid tag, and the all-ones byte
ByteSample == {0, 1, 4, 255}

-----------------------------------------------------------------------------
(* Scalars as little-endian byte sequences. *)

Byte == 0..255

NULL == <<>>

Zeros(w) == [i \in 1..w |-> 0]

\* the w-byte image of a natural below 2^31
NatToLE(n, w) ==
    [i \in 1..w |-> IF i <= 4 THEN (n \div (256 ^ (i - 1))) % 256 ELSE 0]

\* static_cast to a narrower unsigned type: the low w bytes
Narrow(v, w) == SubSeq(v, 1, w)

\* conversion to a wider unsigned type: zero extension
Widen(v, w) == [i \in 1..w |-> IF i <= Len(v) THEN v[i] ELSE 0]

\* a >= b for two unsigned values of the same width
GeLE(a, b) ==
    \/ a = b
    \/ \E i \in 1..Len(a) :
          /\ a[i] > b[i]
          /\ \A j \in (i + 1)..Len(a) : a[j] = b[j]

\* the value of an unsigned scalar whose image has nothing above bit 30
LEToNat(v) ==
    LET d(i) == IF i <= Len(v) THEN v[i] ELSE 0
    IN  d(1) + 256 * d(2) + 65536 * d(3) + 16777216 * d(4)

\* whether LEToNat may be applied
FitsNat(v) ==
    /\ \A i \in 1..Len(v) : i > 4 => v[i] = 0
    /\ Len(v) >= 4 => v[4] < 128

\* ++i on a size_t
Inc(v) ==
    [i \in 1..Len(v) |->
        IF \A j \in 1..(i - 1) : v[j] = 255 THEN (v[i] + 1) % 256 ELSE v[i]]

\* 1ul << k as a size_t
Shl1(k) == [i \in 1..8 |-> IF i = (k \div 8) + 1 THEN 2 ^ (k % 8) ELSE 0]

-----------------------------------------------------------------------------
(* The Blob object as a record, so that operations compose. *)

Cur ==
    [blob_ |-> blob_, offset_ |-> offset_, mpu_ |-> mpu_, vp_ |-> vp_,
     mpl_ |-> mpl_, cptr_ |-> cptr_, vptr_ |-> vptr_, mem |-> mem,
     err |-> err]

Is(s) ==
    /\ blob_ = s.blob_
    /\ offset_ = s.offset_
    /\ mpu_ = s.mpu_
    /\ vp_ = s.vp_
    /\ mpl_ = s.mpl_
    /\ cptr_ = s.cptr_
    /\ vptr_ = s.vptr_
    /\ mem = s.mem
    /\ err = s.err

Becomes(s) ==
    /\ blob_' = s.blob_
    /\ offset_' = s.offset_
    /\ mpu_' = s.mpu_
    /\ vp_' = s.vp_
    /\ mpl_' = s.mpl_
    /\ cptr_' = s.cptr_
    /\ vptr_' = s.vptr_
    /\ mem' = s.mem
    /\ err' = s.err

EmptyMap == [x \in {} |-> 0]

\* Blob(void) = default
NewBlob ==
    [blob_ |-> <<>>, offset_ |-> 0, mpu_ |-> EmptyMap, vp_ |-> <<>>,
     mpl_ |-> EmptyMap, cptr_ |-> <<>>, vptr_ |-> <<>>, mem |-> EmptyMap,
     err |-> "none"]

\* throw EXP(reason): the operation in progress and all its callers end
Throw(s, reason) == [s EXCEPT !.err = reason]

Ok(s) == s.err = "none"

-----------------------------------------------------------------------------
(* Buffer: append_raw, scalar append and restore. *)

\* mutant: the bytes are written at the read cursor, over what follows it
appendRawAtCursor(s, bytes) ==
    IF ~Ok(s) THEN s
    ELSE [s EXCEPT !.blob_ =
             SubSeq(@, 1, IF s.offset_ < Len(@) THEN s.offset_ ELSE Len(@))
             \o bytes]

\* append_raw(ptr, s): push the s bytes at ptr, in order
append_raw(s, bytes) ==
    IF ~Ok(s) THEN s ELSE [s EXCEPT !.blob_ = @ \o bytes]

\* append(T v), T fundamental or enum: append_raw(&v, sizeof(T))
append_fund(s, v) == append_raw(s, v)

\* What an unchecked read past the end of a vector's storage can do: fault, or
\* deliver whatever lies there (b when a byte is read, p when a pointer is).
Overread ==
    {[crash |-> TRUE, b |-> 0, p |-> NULL],
     [crash |-> FALSE, b |-> 0, p |-> NULL],
     [crash |-> FALSE, b |-> 255, p |-> <<0>>]}

\* mutant: a restore that moves the cursor by sizeof(size_t) whatever the type
restoreFundWide(s, w, g) ==
    IF ~Ok(s) THEN [s |-> s, v |-> Zeros(w)]
    ELSE IF s.offset_ >= Len(s.blob_)
    THEN [s |-> Throw(s, "out_of_range"), v |-> Zeros(w)]
    ELSE [s |-> [s EXCEPT !.offset_ = @ + 8],
          v |-> [i \in 1..w |->
                    IF s.offset_ + i <= Len(s.blob_)
                    THEN s.blob_[s.offset_ + i] ELSE g.b]]

\* restore(T &r), T fundamental or enum of w bytes:
\*     r = *(T*)&blob_.at(offset_); offset_ += sizeof(T);
\* at() checks the first byte only; the remaining w-1 bytes are read unchecked.
\* Returns the new state and the value read (v); g says what an unchecked read
\* past the end delivers.
restore_fund(s, w, g) ==
    IF ~Ok(s) THEN [s |-> s, v |-> Zeros(w)]
    ELSE IF s.offset_ >= Len(s.blob_)
    THEN [s |-> Throw(s, "out_of_range"), v |-> Zeros(w)]
    ELSE IF s.offset_ + w > Len(s.blob_) /\ g.crash
    THEN [s |-> Throw(s, "SIGSEGV"), v |-> Zeros(w)]
    ELSE [s |-> [s EXCEPT !.offset_ = @ + w],
          v |-> [i \in 1..w |->
                    IF s.offset_ + i <= Len(s.blob_)
                    THEN s.blob_[s.offset_ + i] ELSE g.b]]

\* restore_raw(ptr, s): for(i < s) *ptr++ = blob_.at(offset_++);
\* offset_++ is evaluated before at() is called, so the throwing call leaves the
\* cursor one past the index it refused.  v is what was copied to ptr.
restore_raw(s, n) ==
    IF ~Ok(s) THEN [s |-> s, v |-> <<>>]
    ELSE LET avail == IF Len(s.blob_) > s.offset_
                      THEN Len(s.blob_) - s.offset_ ELSE 0
         IN  IF n <= avail
             THEN [s |-> [s EXCEPT !.offset_ = @ + n],
                   v |-> SubSeq(s.blob_, s.offset_ + 1, s.offset_ + n)]
             ELSE [s |-> Throw([s EXCEPT !.offset_ = @ + avail + 1],
                               "out_of_range"),
                   v |-> SubSeq(s.blob_, s.offset_ + 1, s.offset_ + avail)]

-----------------------------------------------------------------------------
(* Counter codec. *)

\* static size_t bound[3]{1ul<<8, 1ul<<16, 1ul<<32}
bound == <<Shl1(8), Shl1(16), Shl1(32)>>

\* for(int i = 2; i >= 0; --i) if(cntr >= bound[i]) return i+1;  return 0;
\* (bound is indexed from 1 here)
RECURSIVE counterSizeLoop(_, _)
counterSizeLoop(cntr, i) ==
    IF i < 0 THEN 0
    ELSE IF GeLE(cntr, bound[i + 1]) THEN i + 1
    ELSE counterSizeLoop(cntr, i - 1)

\* mutant: the class boundaries compared with > instead of >=
RECURSIVE counterSizeLoopGt(_, _)
counterSizeLoopGt(cntr, i) ==
    IF i < 0 THEN 0
    ELSE IF cntr # bound[i + 1] /\ GeLE(cntr, bound[i + 1]) THEN i + 1
    ELSE counterSizeLoopGt(cntr, i - 1)

counterSizeGt(cntr) == counterSizeLoopGt(cntr, Len(bound) - 1)

counterSize_(cntr) == counterSizeLoop(cntr, Len(bound) - 1)

\* appendCntr_(size_t s): the tag, then s cast to the tag's width
appendCntr_(s, cntr) ==
    LET cs == counterSize_(cntr)
        s1 == append_fund(s, <<cs>>)
    IN  CASE cs = 0 -> append_fund(s1, Narrow(cntr, 1))
          [] cs = 1 -> append_fund(s1, Narrow(cntr, 2))
          [] cs = 2 -> append_fund(s1, Narrow(cntr, 4))
          [] cs = 3 -> append_fund(s1, Narrow(cntr, 8))
          [] OTHER  -> Throw(s1, "DataCorruption")

\* mutant: class 3 read back through a uint32_t
restoreCntrNarrow(s, g) ==
    LET t  == restore_fund(s, 1, g)
        cs == t.v[1]
        rd(w) == LET c == restore_fund(t.s, w, g)
                 IN  [s |-> c.s, v |-> Widen(c.v, 8)]
    IN  IF ~Ok(t.s) THEN [s |-> t.s, v |-> Zeros(8)]
        ELSE CASE cs = 0 -> rd(1)
               [] cs = 1 -> rd(2)
               [] cs = 2 -> rd(4)
               [] cs = 3 -> rd(4)
               [] OTHER  -> [s |-> Throw(t.s, "DataCorruption"), v |-> Zeros(8)]

\* mutant: an unknown tag read as class 0 instead of being refused
restoreCntrLax(s, g) ==
    LET t  == restore_fund(s, 1, g)
        cs == t.v[1]
        rd(w) == LET c == restore_fund(t.s, w, g)
                 IN  [s |-> c.s, v |-> Widen(c.v, 8)]
    IN  IF ~Ok(t.s) THEN [s |-> t.s, v |-> Zeros(8)]
        ELSE CASE cs = 1 -> rd(2)
               [] cs = 2 -> rd(4)
               [] cs = 3 -> rd(8)
               [] OTHER  -> rd(1)

\* restoreCntr_(): the tag, then a scalar of the tag's width, widened to size_t
restoreCntr_(s, g) ==
    LET t  == restore_fund(s, 1, g)
        cs == t.v[1]
        rd(w) == LET c == restore_fund(t.s, w, g)
                 IN  [s |-> c.s, v |-> Widen(c.v, 8)]
    IN  IF ~Ok(t.s) THEN [s |-> t.s, v |-> Zeros(8)]
        ELSE CASE cs = 0 -> rd(1)
               [] cs = 1 -> rd(2)
               [] cs = 2 -> rd(4)
               [] cs = 3 -> rd(8)
               [] OTHER  -> [s |-> Throw(t.s, "DataCorruption"), v |-> Zeros(8)]

-----------------------------------------------------------------------------
(* Memory.  mem maps an object (a natural) to its value; a value is a tree:  *)
(* a scalar's bytes, a pointer's address, or a sequence of member/element   *)
(* values.  The address <<o, i, j>> is member j of member i of object o.     *)

RECURSIVE GetIn(_, _)
GetIn(v, path) ==
    IF path = <<>> THEN v ELSE GetIn(v[Head(path)], Tail(path))

RECURSIVE SetIn(_, _, _)
SetIn(v, path, x) ==
    IF path = <<>> THEN x
    ELSE [v EXCEPT ![Head(path)] = SetIn(@, Tail(path), x)]

RECURSIVE LiveIn(_, _)
LiveIn(v, path) ==
    \/ path = <<>>
    \/ /\ Head(path) \in DOMAIN v
       /\ LiveIn(v[Head(path)], Tail(path))

\* whether an address designates storage that exists
Live(m, a) == a # NULL /\ Head(a) \in DOMAIN m /\ LiveIn(m[Head(a)], Tail(a))

GetAt(m, a) == GetIn(m[Head(a)], Tail(a))

SetAt(m, a, x) == [m EXCEPT ![Head(a)] = SetIn(@, Tail(a), x)]

\* a store through an address: into live storage it changes that storage; a
\* store through a dangling address is undefined and ends the run here
Store(s, a, x) ==
    IF ~Ok(s) THEN s
    ELSE IF Live(s.mem, a) THEN [s EXCEPT !.mem = SetAt(@, a, x)]
    ELSE Throw(s, "wild_write")

SetMax(S) == CHOOSE x \in S : \A y \in S : y <= x

\* an object no live object uses: a temporary or a heap allocation
FreshObj(m) == IF DOMAIN m = {} THEN 1 ELSE SetMax(DOMAIN m) + 1

-----------------------------------------------------------------------------
(* Pointer dictionary (forward pass): mind_, append of a pointer. *)

\* mutant: a mind_() that does not look the address up
mindAgain(s, ptr) ==
    IF ~Ok(s) THEN s
    ELSE [s EXCEPT !.mpu_ = (ptr :> Len(s.vp_)) @@ @,
                   !.vp_ = Append(@, ptr)]

\* mutant: the uid of an address is taken from the address
mindByAddress(s, ptr) ==
    IF ~Ok(s) THEN s
    ELSE IF ptr \in DOMAIN s.mpu_ THEN s
    ELSE [s EXCEPT !.mpu_ = @ @@ (ptr :> IF ptr = NULL THEN 0 ELSE ptr[1]),
                   !.vp_ = Append(@, ptr)]

\* mind_(void *ptr): a known address is left alone; a new one gets uid vp_.size()
mind_(s, ptr) ==
    IF ~Ok(s) THEN s
    ELSE IF ptr \in DOMAIN s.mpu_ THEN s
    ELSE [s EXCEPT !.mpu_ = @ @@ (ptr :> Len(s.vp_)),
                   !.vp_ = Append(@, ptr)]

\* mind_(const Container<T, Alloc> &c) and the variadic mind(): each address in order
RECURSIVE mind(_, _)
mind(s, ptrs) ==
    IF ptrs = <<>> THEN s ELSE mind(mind_(s, Head(ptrs)), Tail(ptrs))

\* mutant: an address that is not in the dictionary is written as the next uid
appendPtrLax(s, v) ==
    IF ~Ok(s) THEN s
    ELSE IF v \notin DOMAIN s.mpu_ THEN append_fund(s, NatToLE(Len(s.vp_), 4))
    ELSE append_fund(s, NatToLE(s.mpu_[v], 4))

\* append(const T &v), T a pointer: the uid of the address, as an unsigned
append_ptr(s, v) ==
    IF ~Ok(s) THEN s
    ELSE IF v \notin DOMAIN s.mpu_ THEN Throw(s, "UnaccountedPointer")
    ELSE append_fund(s, NatToLE(s.mpu_[v], 4))

-----------------------------------------------------------------------------
(* Pointer resolution (deferred pass): restore of a pointer, remind. *)

\* mutant: a pointer restore that writes the field at once from the list
restorePtrEager(s, loc, g) ==
    LET u == restore_fund(s, 4, g)
    IN  IF ~Ok(u.s) THEN u.s
        ELSE Store(u.s, loc,
                   IF FitsNat(u.v) /\ LEToNat(u.v) < Len(u.s.vp_)
                   THEN u.s.vp_[LEToNat(u.v) + 1] ELSE g.p)

\* restore(T &ptr), T a pointer; loc is &ptr.  mpl_[uid] creates the entry.
restore_ptr(s, loc, g) ==
    LET u   == restore_fund(s, 4, g)
        uid == u.v
        spl == IF uid \in DOMAIN u.s.mpl_ THEN u.s.mpl_[uid] ELSE {}
    IN  IF ~Ok(u.s) THEN u.s
        ELSE IF spl # {} /\ loc \in spl
        THEN Throw(u.s, "DuplicatePointerLocation")
        ELSE [u.s EXCEPT !.mpl_ =
                 [k \in DOMAIN u.s.mpl_ \cup {uid} |->
                     IF k = uid THEN spl \cup {loc} ELSE u.s.mpl_[k]]]

\* mutant: every pointer location is actual
isActualAll(s, loc) == [s |-> s, v |-> TRUE]

\* is_actual(T ptr): mpl_[0].find(ptr) == mpl_[0].end(); mpl_[0] creates the entry
is_actual(s, loc) ==
    LET z   == Zeros(4)
        had == z \in DOMAIN s.mpl_
    IN  [s |-> IF had \/ ~Ok(s) THEN s
               ELSE [s EXCEPT !.mpl_ = @ @@ (z :> {})],
         v |-> ~(had /\ loc \in s.mpl_[z])]

\* vp_[uid]: an unchecked read of the vector; past its end it delivers whatever
\* g.p is, or faults
VpAt(s, uid, g) ==
    IF FitsNat(uid) /\ LEToNat(uid) < Len(s.vp_)
    THEN s.vp_[LEToNat(uid) + 1]
    ELSE g.p

VpInRange(s, uid) == FitsNat(uid) /\ LEToNat(uid) < Len(s.vp_)

\* the uids of mpl_ in the order the map iterates them
RECURSIVE SortLE(_)
SortLE(S) ==
    IF S = {} THEN <<>>
    ELSE LET m == CHOOSE x \in S : \A y \in S : GeLE(y, x)
         IN  <<m>> \o SortLE(S \ {m})

RECURSIVE StoreAll(_, _, _)
StoreAll(s, locs, x) ==
    IF locs = {} THEN s
    ELSE LET l == CHOOSE y \in locs : TRUE
         IN  StoreAll(Store(s, l, x), locs \ {l}, x)

RECURSIVE remindLoop(_, _, _)
remindLoop(s, uids, g) ==
    IF uids = <<>> \/ ~Ok(s) THEN s
    ELSE LET uid == Head(uids)
         IN  IF ~VpInRange(s, uid) /\ g.crash
             THEN Throw(s, "SIGSEGV")
             ELSE remindLoop(StoreAll(s, s.mpl_[uid], VpAt(s, uid, g)),
                             Tail(uids), g)

\* mutant: a remind() without the test of the sizes
remindUnchecked(s, g) ==
    IF ~Ok(s) THEN s
    ELSE IF DOMAIN s.mpl_ = {} THEN s
    ELSE LET r == remindLoop(s, SortLE(DOMAIN s.mpl_), g)
         IN  IF Ok(r) THEN [r EXCEPT !.mpl_ = EmptyMap] ELSE r

\* remind(): write vp_[uid] into every location recorded under uid
remind(s, g) ==
    IF ~Ok(s) THEN s
    ELSE IF DOMAIN s.mpl_ = {} THEN s
    ELSE IF Cardinality(DOMAIN s.mpl_) > Len(s.vp_)
    THEN Throw(s, "MissingPointers")
    ELSE LET r == remindLoop(s, SortLE(DOMAIN s.mpl_), g)
         IN  IF Ok(r) THEN [r EXCEPT !.mpl_ = EmptyMap] ELSE r

\* mutant: a reset() of the cursor alone
resetCursorOnly(s) == [s EXCEPT !.offset_ = 0]

\* mutant: a reset() that keeps the pending pointer table
resetKeepPending(s) ==
    [s EXCEPT !.vp_ = <<>>, !.mpu_ = EmptyMap, !.offset_ = 0]

\* reset(): the dictionaries and the cursor; the bytes stay
reset(s) ==
    [s EXCEPT !.vp_ = <<>>, !.mpu_ = EmptyMap, !.mpl_ = EmptyMap, !.offset_ = 0]

\* clear(): blob_.clear(); return reset();
clear(s) == reset([s EXCEPT !.blob_ = <<>>])

-----------------------------------------------------------------------------
(* Types of the data a program hands to append() and restore().  A value in   *)
(* memory is a tree: a scalar is its bytes, a pointer is an address, an array, *)
(* container, string or class object is the sequence of its elements or       *)
(* members, a map is the sequence of its <<key, value>> pairs in key order.   *)
(* The address of a part is the address of the whole followed by its index.   *)

TFund(w) == [k |-> "fund", w |-> w]

TPtr == [k |-> "ptr"]

TStr == [k |-> "str"]

TArr(t, n) == [k |-> "arr", t |-> t, n |-> n]

TSeq(t) == [k |-> "vec", t |-> t]

TMap(kt, vt) == [k |-> "map", kt |-> kt, vt |-> vt]

\* a class declared with one of the macros: mind is the MIND() list, rptrs the
\* REMIND() list (member numbers), args the serialised members in order
TClass(macro, ml, rptrs, args) ==
    [k |-> "class", macro |-> macro, mind |-> ml, rptrs |-> rptrs,
     args |-> args]

\* the class being declared, where a member's type mentions it
TSelf == [k |-> "self"]

\* an entry of a MIND() list: the address of a part of the object (&x_) or the
\* value a pointer member holds (ptr_)
AddrOf(p) == [m |-> "addr", p |-> p]

ValOf(p) == [m |-> "val", p |-> p]

\* mutant: mind(MPTRS), without the leading nullptr
AnchorsNoNull(m, ml, a) ==
    [i \in 1..Len(ml) |->
        IF ml[i].m = "addr" THEN a \o ml[i].p ELSE GetAt(m, a \o ml[i].p)]

\* the arguments of mind(nullptr, MPTRS) for the object at a
Anchors(m, ml, a) ==
    <<NULL>> \o [i \in 1..Len(ml) |->
                    IF ml[i].m = "addr" THEN a \o ml[i].p
                    ELSE GetAt(m, a \o ml[i].p)]

\* a default-constructed object
RECURSIVE Default(_)
Default(t) ==
    CASE t.k = "fund"  -> Zeros(t.w)
      [] t.k = "ptr"   -> NULL
      [] t.k = "arr"   -> [i \in 1..t.n |-> Default(t.t)]
      [] t.k = "class" -> [i \in 1..Len(t.args) |-> Default(t.args[i])]
      [] OTHER         -> <<>>

\* mutant: a resize that never grows the container
resizeNoGrow(c, n, d) == [i \in 1..(IF n <= Len(c) THEN n ELSE Len(c)) |-> c[i]]

\* c.resize(n): the first n elements stay, new ones are value-initialised
resize(c, n, d) == [i \in 1..n |-> IF i <= Len(c) THEN c[i] ELSE d]

\* operator< of std::string: character by character, a prefix comes first
RECURSIVE StrLess(_, _)
StrLess(a, b) ==
    IF a = <<>> \/ b = <<>> THEN b # <<>>
    ELSE \/ Head(a)[1] < Head(b)[1]
         \/ Head(a) = Head(b) /\ StrLess(Tail(a), Tail(b))

\* std::less<K> for a key type kt: scalars as unsigned numbers
KeyLess(kt, a, b) ==
    IF kt.k = "str" THEN StrLess(a, b) ELSE a # b /\ GeLE(b, a)

\* mutant: an insertion that overwrites the value of a key already present
emplaceAssign(c, k, v, kt) ==
    IF \E i \in 1..Len(c) : c[i][1] = k
    THEN [i \in 1..Len(c) |-> IF c[i][1] = k THEN <<k, v>> ELSE c[i]]
    ELSE LET n == Cardinality({i \in 1..Len(c) : KeyLess(kt, c[i][1], k)})
         IN  SubSeq(c, 1, n) \o <<<<k, v>>>> \o SubSeq(c, n + 1, Len(c))

\* c.emplace(k, v): nothing when the key is present, else inserted in key order
emplace(c, k, v, kt) ==
    IF \E i \in 1..Len(c) : c[i][1] = k THEN c
    ELSE LET n == Cardinality({i \in 1..Len(c) : KeyLess(kt, c[i][1], k)})
         IN  SubSeq(c, 1, n) \o <<<<k, v>>>> \o SubSeq(c, n + 1, Len(c))

\* storage for a local or heap object
Alloc(s, o, x) == [s EXCEPT !.mem = (o :> x) @@ @]

\* end of lifetime of objects
Free(s, os) == [s EXCEPT !.mem = [o \in DOMAIN @ \ os |-> @[o]]]

-----------------------------------------------------------------------------
(* append(v) by the type of v, and the serialize() the macros define. *)

RECURSIVE append(_, _, _, _)
RECURSIVE appendEach(_, _, _, _, _, _)
RECURSIVE appendPairs(_, _, _, _, _, _)
RECURSIVE appendArgs(_, _, _, _)
RECURSIVE serialize(_, _, _)
RECURSIVE serializeRptrs(_, _, _, _)

\* append(const T &v) for the object of type t at address a; self is the class
\* whose member it is
append(s, t, a, self) ==
    IF ~Ok(s) THEN s
    ELSE LET v == GetAt(s.mem, a)
             n == NatToLE(Len(v), 8)
         IN  CASE t.k = "fund"  -> append_fund(s, v)
               [] t.k = "ptr"   -> append_ptr(s, v)
               [] t.k = "arr"   -> appendEach(s, t.t, a, 1, t.n, self)
               [] t.k = "vec"   ->
                    appendEach(appendCntr_(s, n), t.t, a, 1, Len(v), self)
               [] t.k = "str"   ->
                    appendEach(appendCntr_(s, n), TFund(1), a, 1, Len(v), self)
               [] t.k = "map"   ->
                    appendPairs(appendCntr_(s, n), t, a, 1, Len(v), self)
               [] t.k = "class" -> serialize(s, t, a)
               [] t.k = "self"  -> serialize(s, self, a)

\* mutant: the elements are written last to first
RECURSIVE appendEachRev(_, _, _, _, _, _)
appendEachRev(s, t, a, i, n, self) ==
    IF i > n \/ ~Ok(s) THEN s
    ELSE append(appendEachRev(s, t, a, i + 1, n, self), t, a \o <<i>>, self)

\* for(const T &v: c) append(v);
appendEach(s, t, a, i, n, self) ==
    IF i > n \/ ~Ok(s) THEN s
    ELSE appendEach(append(s, t, a \o <<i>>, self), t, a, i + 1, n, self)

\* for(auto &v: c) { append(v.first); append(v.second); }
appendPairs(s, t, a, i, n, self) ==
    IF i > n \/ ~Ok(s) THEN s
    ELSE LET s1 == append(s, t.kt, a \o <<i, 1>>, self)
             s2 == append(s1, t.vt, a \o <<i, 2>>, self)
         IN  appendPairs(s2, t, a, i + 1, n, self)

\* mutant: a variadic append that writes the rest before the first
RECURSIVE appendArgsRev(_, _, _, _)
appendArgsRev(s, d, a, i) ==
    IF i > Len(d.args) \/ ~Ok(s) THEN s
    ELSE append(appendArgsRev(s, d, a, i + 1), d.args[i], a \o <<i>>, d)

\* the variadic append(first, rest...) over the members a macro lists
appendArgs(s, d, a, i) ==
    IF i > Len(d.args) \/ ~Ok(s) THEN s
    ELSE appendArgs(append(s, d.args[i], a \o <<i>>, d), d, a, i + 1)

\* serialize(Blob &) of the object of class d at address a
serialize(s, d, a) ==
    IF ~Ok(s) THEN s
    ELSE IF ~Live(s.mem, a) THEN Throw(s, "wild_read")
    ELSE IF d.macro = "SERDES" THEN appendArgs(s, d, a, 1)
    ELSE LET m == mind(s, Anchors(s.mem, d.mind, a))
             w == appendArgs(m, d, a, 1)
         IN  IF d.macro = "RSERDES" THEN serializeRptrs(w, d, a, 1) ELSE w

\* __SDSR_SX__ for each recursive pointer: if(X) X->serialize(__blob__);
serializeRptrs(s, d, a, i) ==
    IF i > Len(d.rptrs) \/ ~Ok(s) THEN s
    ELSE LET X == GetAt(s.mem, a \o <<d.rptrs[i]>>)
         IN  serializeRptrs(IF X # NULL THEN serialize(s, d, X) ELSE s,
                            d, a, i + 1)

-----------------------------------------------------------------------------
(* restore(v) by the type of v, and the deserialize() the macros define. *)

\* the largest count resize() is given storage for; beyond it it throws
MaxAlloc == 8

RECURSIVE restore(_, _, _, _, _)
RECURSIVE restoreEach(_, _, _, _, _, _, _)
RECURSIVE restorePairs(_, _, _, _, _, _, _)
RECURSIVE restoreArgs(_, _, _, _, _)
RECURSIVE deserialize(_, _, _, _, _)
RECURSIVE newRptrs(_, _, _, _)
RECURSIVE deserializeRptrs(_, _, _, _, _)

\* restore(T &r) for the object of type t at address a
restore(s, t, a, self, g) ==
    IF ~Ok(s) THEN s
    ELSE CASE t.k = "fund"  -> LET r == restore_fund(s, t.w, g)
                               IN  Store(r.s, a, r.v)
           [] t.k = "ptr"   -> restore_ptr(s, a, g)
           [] t.k = "arr"   -> restoreEach(s, t.t, a, 1, t.n, self, g)
           [] t.k \in {"vec", "str"} ->
                LET r  == restoreCntr_(s, g)
                    et == IF t.k = "str" THEN TFund(1)
                          ELSE IF t.t.k = "self" THEN self ELSE t.t
                IN  IF ~Ok(r.s) THEN r.s
                    ELSE IF ~FitsNat(r.v) \/ LEToNat(r.v) > MaxAlloc
                    THEN Throw(r.s, "bad_alloc")
                    ELSE LET n  == LEToNat(r.v)
                             c  == resize(GetAt(r.s.mem, a), n, Default(et))
                         IN  restoreEach(Store(r.s, a, c), et, a, 1, n, self, g)
           [] t.k = "map"   ->
                LET r == restoreCntr_(s, g)
                IN  IF ~Ok(r.s) THEN r.s
                    ELSE restorePairs(r.s, t, a, Zeros(8), r.v, self, g)
           [] t.k = "class" -> deserialize(s, t, a, g, TRUE)
           [] t.k = "self"  -> deserialize(s, self, a, g, TRUE)

\* for(auto &v: c) restore(v);
restoreEach(s, t, a, i, n, self, g) ==
    IF i > n \/ ~Ok(s) THEN s
    ELSE restoreEach(restore(s, t, a \o <<i>>, self, g), t, a, i + 1, n, self, g)

\* for(size_t i=0; i<l; ++i) { K k; V v; restore(k); restore(v); c.emplace(k, v); }
\* k and v are locals of the loop body: they end with each round
restorePairs(s, t, a, i, l, self, g) ==
    IF i = l \/ ~Ok(s) THEN s
    ELSE LET ko == FreshObj(s.mem)
             vo == ko + 1
             s0 == Alloc(Alloc(s, ko, Default(t.kt)), vo, Default(t.vt))
             s1 == restore(s0, t.kt, <<ko>>, self, g)
             s2 == restore(s1, t.vt, <<vo>>, self, g)
             s3 == IF Ok(s2)
                   THEN Store(s2, a, emplace(GetAt(s2.mem, a), s2.mem[ko],
                                             s2.mem[vo], t.kt))
                   ELSE s2
         IN  restorePairs(Free(s3, {ko, vo}), t, a, Inc(i), l, self, g)

\* the variadic restore(first, rest...) over the members a macro lists
restoreArgs(s, d, a, i, g) ==
    IF i > Len(d.args) \/ ~Ok(s) THEN s
    ELSE restoreArgs(restore(s, d.args[i], a \o <<i>>, d, g), d, a, i + 1, g)

\* deserialize(Blob &) of the object of class d at address a; top is FALSE for
\* deserialize_recursive(Blob &), which is the same without the final remind()
deserialize(s, d, a, g, top) ==
    LET r == restoreArgs(s, d, a, 1, g)
        n == IF d.macro = "RSERDES" THEN newRptrs(r, d, a, 1) ELSE r
    IN  IF ~Ok(s) THEN s
        ELSE IF ~Live(s.mem, a) THEN Throw(s, "wild_write")
        ELSE IF d.macro = "SERDES" \/ ~Ok(n) THEN n
        ELSE LET m == mind(n, Anchors(n.mem, d.mind, a))
                 x == IF d.macro = "RSERDES"
                      THEN deserializeRptrs(m, d, a, 1, g) ELSE m
             IN  IF top THEN remind(x, g) ELSE x

\* __SDSR_NX__ for each recursive pointer:
\*     if(__blob__.is_actual(&X)) X = new remove_reference<decltype(*X)>::type;
newRptrs(s, d, a, i) ==
    IF i > Len(d.rptrs) \/ ~Ok(s) THEN s
    ELSE LET loc == a \o <<d.rptrs[i]>>
             ia  == is_actual(s, loc)
             o   == FreshObj(ia.s.mem)
         IN  newRptrs(IF ia.v THEN Store(Alloc(ia.s, o, Default(d)), loc, <<o>>)
                      ELSE ia.s,
                      d, a, i + 1)

\* __SDSR_DX__ for each recursive pointer: if(X) X->deserialize_recursive(__blob__);
deserializeRptrs(s, d, a, i, g) ==
    IF i > Len(d.rptrs) \/ ~Ok(s) THEN s
    ELSE LET X == GetAt(s.mem, a \o <<d.rptrs[i]>>)
         IN  deserializeRptrs(IF X # NULL THEN deserialize(s, d, X, g, FALSE)
                              ELSE s,
                              d, a, i + 1, g)

-----------------------------------------------------------------------------
(* Inputs of the counter codec: counts with n significant bytes, n = 0..8,   *)
(* the top one 1 or 255 and the ones below it all 0 or all 255.  They hold   *)
(* 2^8 - 1, 2^8, 2^16 - 1, 2^16, 2^32 - 1, 2^32 and 2^64 - 1.                *)

SizeOf(n, top, low) ==
    [i \in 1..8 |-> IF i < n THEN low ELSE IF i = n THEN top ELSE 0]

SizeSample ==
    {SizeOf(n, top, low) : n \in 0..8, top \in {1, 255}, low \in {0, 255}}

NoOp == [name |-> "none", arg |-> <<>>]

-----------------------------------------------------------------------------
(* SpecCntr: a program that writes counters to a Blob and reads them back.  *)

InitCntr ==
    /\ Is(NewBlob)
    /\ op = NoOp
    /\ ret = <<>>
    /\ pc = "cntr"
    /\ typ = <<>>

\* appendCntr_(c), as append() of a container of c elements starts
DoAppendCntr ==
    /\ err = "none"
    /\ Len(blob_) <= MaxBlob
    /\ \E c \in SizeSample :
          /\ Becomes(appendCntr_(Cur, c))
          /\ op' = [name |-> "appendCntr_", arg |-> c]
    /\ ret' = <<>>
    /\ UNCHANGED <<pc, typ>>

\* restoreCntr_(), as restore() of a container starts
DoRestoreCntr ==
    /\ err = "none"
    /\ \E g \in Overread :
          LET r == restoreCntr_(Cur, g)
          IN  /\ Becomes(r.s)
              /\ ret' = IF Ok(r.s) THEN r.v ELSE <<>>
    /\ op' = [name |-> "restoreCntr_", arg |-> <<>>]
    /\ UNCHANGED <<pc, typ>>

\* reset(); a caller that caught an exception starts over with it
DoReset ==
    /\ Becomes([reset(Cur) EXCEPT !.err = "none"])
    /\ op' = [name |-> "reset", arg |-> <<>>]
    /\ ret' = <<>>
    /\ UNCHANGED <<pc, typ>>

\* clear()
DoClear ==
    /\ Becomes([clear(Cur) EXCEPT !.err = "none"])
    /\ op' = [name |-> "clear", arg |-> <<>>]
    /\ ret' = <<>>
    /\ UNCHANGED <<pc, typ>>

NextCntr == DoAppendCntr \/ DoRestoreCntr \/ DoReset \/ DoClear

SpecCntr == InitCntr /\ [][NextCntr]_vars

\* number of significant bytes of a count
SigBytes(c) == IF \A i \in 1..8 : c[i] = 0 THEN 0
               ELSE SetMax({i \in 1..8 : c[i] # 0})

\* C6: the counter encoder writes one tag byte t in {0,1,2,3} followed by exactly
\* 2^t bytes that hold the count, and t is the smallest class that can hold it:
\* t=0 iff s < 2^8, t=1 iff 2^8 <= s < 2^16, t=2 iff 2^16 <= s < 2^32,
\* t=3 iff s >= 2^32.
C6_CounterWidth ==
    [][op'.name = "appendCntr_" =>
        LET s == op'.arg
            n == Len(blob_)
            t == blob_'[n + 1]
        IN  /\ Len(blob_') >= n + 1
            /\ SubSeq(blob_', 1, n) = blob_
            /\ t \in 0..3
            /\ Len(blob_') = n + 1 + 2 ^ t
            /\ Widen(SubSeq(blob_', n + 2, Len(blob_')), 8) = s
            /\ (t = 0 <=> SigBytes(s) <= 1)
            /\ (t = 1 <=> SigBytes(s) = 2)
            /\ (t = 2 <=> SigBytes(s) \in {3, 4})
            /\ (t = 3 <=> SigBytes(s) >= 5)
    ]_vars

\* C6 witness: 2^32 was written with tag 3 and eight bytes
C6_Witness ==
    /\ op.name = "appendCntr_"
    /\ op.arg = Shl1(32)
    /\ blob_ = <<3>> \o Shl1(32)

\* the bytes appendCntr_ writes for c
CntrBytes(c) == appendCntr_(NewBlob, c).blob_

\* C7: decoding the bytes the encoder wrote for s returns exactly s and advances
\* the cursor by 1 + 2^t, t the tag written; 2^8, 2^16 and 2^32 each take the
\* next-larger width than the value just below them.
C7_CounterRoundTrip ==
    [][op'.name = "restoreCntr_" =>
        /\ \A c \in SizeSample :
              LET e == CntrBytes(c)
              IN  (/\ offset_ + Len(e) <= Len(blob_)
                   /\ SubSeq(blob_, offset_ + 1, offset_ + Len(e)) = e)
                  => /\ err' = "none"
                     /\ ret' = c
                     /\ offset_' = offset_ + 1 + 2 ^ e[1]
        /\ counterSize_(Shl1(8)) = counterSize_(SizeOf(1, 255, 0)) + 1
        /\ counterSize_(Shl1(16)) = counterSize_(SizeOf(2, 255, 255)) + 1
        /\ counterSize_(Shl1(32)) = counterSize_(SizeOf(4, 255, 255)) + 1
    ]_vars

\* C7 witness: 2^32 was read back from the bytes written for it
C7_Witness ==
    /\ op.name = "restoreCntr_"
    /\ err = "none"
    /\ ret = Shl1(32)
    /\ offset_ = Len(blob_)
    /\ blob_ = CntrBytes(Shl1(32))

-----------------------------------------------------------------------------
(* Spec: a program that holds a Blob seeded from an external byte source    *)
(* (Blob(Iter first, Iter last)) and uses its buffer operations on it.      *)

BytesUpTo(n) == UNION {[1..k -> ByteSample] : k \in 0..n}

\* widths of the scalars restored: char/bool, short, int, long/double
Widths == {1, 2, 4, 8}

Init ==
    /\ \E b \in BytesUpTo(MaxBlob) : Is([NewBlob EXCEPT !.blob_ = b])
    /\ op = NoOp
    /\ ret = <<>>
    /\ pc = "buffer"
    /\ typ = <<>>

\* append_raw(ptr, n)
DoAppendRaw ==
    /\ err = "none"
    /\ \E b \in BytesUpTo(MaxLen) :
          /\ Len(blob_) + Len(b) <= MaxBlob
          /\ Becomes(append_raw(Cur, b))
          /\ op' = [name |-> "append_raw", arg |-> b]
    /\ ret' = <<>>
    /\ UNCHANGED <<pc, typ>>

\* append(T v), T a scalar
DoAppendFund ==
    /\ err = "none"
    /\ \E b \in BytesUpTo(MaxLen) :
          /\ Len(b) \in Widths
          /\ Len(blob_) + Len(b) <= MaxBlob
          /\ Becomes(append_fund(Cur, b))
          /\ op' = [name |-> "append", arg |-> b]
    /\ ret' = <<>>
    /\ UNCHANGED <<pc, typ>>

\* restore_raw(ptr, n); ret is what ptr holds afterwards
DoRestoreRaw ==
    /\ err = "none"
    /\ \E n \in 0..MaxLen :
          LET r == restore_raw(Cur, n)
          IN  /\ Becomes(r.s)
              /\ ret' = r.v
              /\ op' = [name |-> "restore_raw", arg |-> n]
    /\ UNCHANGED <<pc, typ>>

\* restore(T &r), T a scalar; ret is r afterwards
DoRestoreFund ==
    /\ err = "none"
    /\ \E w \in Widths, g \in Overread :
          LET r == restore_fund(Cur, w, g)
          IN  /\ Becomes(r.s)
              /\ ret' = IF Ok(r.s) THEN r.v ELSE <<>>
              /\ op' = [name |-> "restore", arg |-> w]
    /\ UNCHANGED <<pc, typ>>

Next ==
    \/ DoAppendRaw
    \/ DoAppendFund
    \/ DoRestoreRaw
    \/ DoRestoreFund
    \/ DoRestoreCntr
    \/ DoReset
    \/ DoClear

Spec == Init /\ [][Next]_vars

\* C8: when the byte read as a counter tag is not in {0,1,2,3}, counter decoding
\* fails with DataCorruption and returns no count; nothing outside the Blob is
\* changed.
C8_CorruptTag ==
    [][(/\ op'.name = "restoreCntr_"
        /\ offset_ < Len(blob_)
        /\ blob_[offset_ + 1] \notin 0..3)
        => /\ err' = "DataCorruption"
           /\ ret' = <<>>
           /\ mem' = mem
           /\ blob_' = blob_
    ]_vars

\* C8 witness: a counter was decoded at a tag byte of 4 or 255
C8_Witness ==
    /\ op.name = "restoreCntr_"
    /\ err = "DataCorruption"
    /\ offset_ >= 1
    /\ blob_[offset_] \in {4, 255}

\* C9: restore_raw(ptr, n) copies bytes[cursor .. cursor+n) to ptr and advances
\* the cursor by n when cursor + n <= len(bytes), and fails when
\* cursor + n > len(bytes).
C9_RestoreRaw ==
    [][op'.name = "restore_raw" =>
        LET n == op'.arg
        IN  IF offset_ + n <= Len(blob_)
            THEN /\ err' = "none"
                 /\ ret' = SubSeq(blob_, offset_ + 1, offset_ + n)
                 /\ offset_' = offset_ + n
            ELSE err' # "none"
    ]_vars

\* C10: the cursor never passes the end of the bytes.  States after a failed
\* operation are left out: the pass is over there.
C10_CursorBound ==
    err = "none" => offset_ <= Len(blob_)

-----------------------------------------------------------------------------
(* SpecDict: a program that uses the pointer operations of one Blob          *)
(* directly: objects 2 and 3 are pointed to, object 1 holds two pointer      *)
(* members.                                                                  *)

Targets == {NULL, <<2>>, <<3>>}

Slots == {<<1, 1>>, <<1, 2>>}

InitDict ==
    /\ Is([NewBlob EXCEPT !.mem = (1 :> <<NULL, NULL>>) @@ (2 :> <<0>>)
                                  @@ (3 :> <<0>>)])
    /\ op = NoOp
    /\ ret = <<>>
    /\ pc = "dict"
    /\ typ = <<>>

\* mind(ptr)
DoMind ==
    /\ err = "none"
    /\ \E a \in Targets :
          /\ Becomes(mind_(Cur, a))
          /\ op' = [name |-> "mind", arg |-> a]
    /\ ret' = <<>>
    /\ UNCHANGED <<pc, typ>>

\* append(ptr)
DoAppendPtr ==
    /\ err = "none"
    /\ Len(blob_) <= MaxBlob
    /\ \E v \in Targets :
          /\ Becomes(append_ptr(Cur, v))
          /\ op' = [name |-> "append_ptr", arg |-> v]
    /\ ret' = <<>>
    /\ UNCHANGED <<pc, typ>>

\* restore(ptr), ptr one of the two pointer members
DoRestorePtr ==
    /\ err = "none"
    /\ \E loc \in Slots, g \in Overread :
          /\ Becomes(restore_ptr(Cur, loc, g))
          /\ op' = [name |-> "restore_ptr", arg |-> loc]
    /\ ret' = <<>>
    /\ UNCHANGED <<pc, typ>>

\* is_actual(&ptr), ptr one of the two pointer members
DoIsActual ==
    /\ err = "none"
    /\ \E loc \in Slots :
          /\ Becomes(is_actual(Cur, loc).s)
          /\ ret' = <<is_actual(Cur, loc).v>>
          /\ op' = [name |-> "is_actual", arg |-> loc]
    /\ UNCHANGED <<pc, typ>>

\* remind()
DoRemind ==
    /\ err = "none"
    /\ \E g \in Overread : Becomes(remind(Cur, g))
    /\ op' = [name |-> "remind", arg |-> <<>>]
    /\ ret' = <<>>
    /\ UNCHANGED <<pc, typ>>

NextDict ==
    \/ DoMind
    \/ DoAppendPtr
    \/ DoRestorePtr
    \/ DoIsActual
    \/ DoRemind
    \/ DoReset
    \/ DoClear

SpecDict == InitDict /\ [][NextDict]_vars

\* C5: appending a pointer whose address is not in the dictionary fails with
\* UnaccountedPointer and leaves bytes, cursor and dictionary as they were;
\* appending one that is in the dictionary adds exactly its id, as an unsigned.
C5_UnaccountedPointer ==
    [][op'.name = "append_ptr" =>
        LET v == op'.arg
            n == Len(blob_)
        IN  IF v \notin DOMAIN mpu_
            THEN /\ err' = "UnaccountedPointer"
                 /\ blob_' = blob_
                 /\ offset_' = offset_
                 /\ mpu_' = mpu_
                 /\ vp_' = vp_
            ELSE /\ err' = "none"
                 /\ Len(blob_') = n + 4
                 /\ SubSeq(blob_', 1, n) = blob_
                 /\ FitsNat(SubSeq(blob_', n + 1, n + 4))
                 /\ LEToNat(SubSeq(blob_', n + 1, n + 4)) = mpu_[v]
                 /\ vp_[mpu_[v] + 1] = v
                 /\ offset_' = offset_
                 /\ mpu_' = mpu_
                 /\ vp_' = vp_
    ]_vars

\* C5 witness: with a dictionary that holds other addresses and bytes already
\* written, a pointer to an address that was never minded was refused
C5_Witness ==
    /\ op.name = "append_ptr"
    /\ err = "UnaccountedPointer"
    /\ op.arg = <<3>>
    /\ vp_ = <<NULL, <<2>>>>
    /\ Len(blob_) = 4

-----------------------------------------------------------------------------
(* SpecRT: a program serialises a source object into a new Blob and restores *)
(* a default-constructed object of the same type from it, as                 *)
(*     Blob b(src);  b.restore(dst);                                         *)
(* Object 1 is src, object 2 is dst.  The types are those of the test         *)
(* classes, with fewer members.                                               *)

Fundamentals == TClass("SERDES", <<>>, <<>>, <<TFund(1), TFund(4)>>)

Serdesables == TClass("SERDES", <<>>, <<>>, <<Fundamentals>>)

TrivialContainers == TClass("SERDES", <<>>, <<>>, <<TSeq(TFund(1)), TStr>>)

TypeSample ==
    <<TFund(1), TFund(2), TFund(4), TFund(8),
      Fundamentals, Serdesables,
      TArr(TFund(2), 2), TArr(Fundamentals, 2),
      TSeq(TFund(4)), TStr, TSeq(Fundamentals), TSeq(TStr),
      TrivialContainers,
      TMap(TStr, TFund(1)), TMap(TFund(1), TStr), TMap(TFund(1), Serdesables)>>

\* scalars of w bytes: 0, 255, the largest value and the largest multiple of 256
FundSample(w) ==
    {[i \in 1..w |-> IF i = 1 THEN x[1] ELSE x[2]] : x \in {0, 255} \X {0, 255}}

CharSample == {97, 255}

SeqsUpTo(S, n) == UNION {[1..k -> S] : k \in 0..n}

RECURSIVE Product(_)
Product(S) ==
    IF S = <<>> THEN {<<>>}
    ELSE {<<h>> \o r : h \in Head(S), r \in Product(Tail(S))}

\* the pairs of a map in the order the map keeps them
RECURSIVE SortPairs(_, _)
SortPairs(f, kt) ==
    IF DOMAIN f = {} THEN <<>>
    ELSE LET k == CHOOSE x \in DOMAIN f :
                      \A y \in DOMAIN f \ {x} : KeyLess(kt, x, y)
         IN  <<<<k, f[k]>>>> \o SortPairs([y \in DOMAIN f \ {k} |-> f[y]], kt)

\* the objects of a type, containers up to MaxLen elements
RECURSIVE Values(_)
Values(t) ==
    CASE t.k = "fund"  -> FundSample(t.w)
      [] t.k = "ptr"   -> {NULL}
      [] t.k = "arr"   -> [1..t.n -> Values(t.t)]
      [] t.k = "vec"   -> SeqsUpTo(Values(t.t), MaxLen)
      [] t.k = "str"   -> SeqsUpTo({<<c>> : c \in CharSample}, MaxLen)
      [] t.k = "map"   ->
            {SortPairs(f, t.kt) :
                f \in UNION {[K -> Values(t.vt)] :
                                K \in {S \in SUBSET Values(t.kt) :
                                          Cardinality(S) <= MaxLen}}}
      [] t.k = "class" -> Product([i \in 1..Len(t.args) |-> Values(t.args[i])])

InitRT ==
    \E i \in DOMAIN TypeSample :
       \E v \in Values(TypeSample[i]) :
          /\ typ = TypeSample[i]
          /\ Is([NewBlob EXCEPT !.mem = (1 :> v) @@ (2 :> Default(typ))])
          /\ op = NoOp
          /\ ret = <<>>
          /\ pc = "start"

\* Blob b(src);
Serialize ==
    /\ pc = "start"
    /\ Becomes(append(Cur, typ, <<1>>, typ))
    /\ op' = [name |-> "append", arg |-> <<1>>]
    /\ pc' = "appended"
    /\ UNCHANGED <<ret, typ>>

\* the bytes go to a file and come back in a Blob that has seen nothing else
\* (Blob(first, last), or reset() on the same Blob)
Reload ==
    /\ pc = "appended"
    /\ err = "none"
    /\ Becomes(reset(Cur))
    /\ op' = [name |-> "reset", arg |-> <<>>]
    /\ pc' = "loaded"
    /\ UNCHANGED <<ret, typ>>

\* b.restore(dst);
Deserialize(from) ==
    /\ pc = from
    /\ err = "none"
    /\ \E g \in Overread : Becomes(restore(Cur, typ, <<2>>, typ, g))
    /\ op' = [name |-> "restore", arg |-> <<2>>]
    /\ pc' = "restored"
    /\ UNCHANGED <<ret, typ>>

NextRT ==
    \/ Serialize
    \/ Reload
    \/ Deserialize("appended")
    \/ Deserialize("loaded")

SpecRT == InitRT /\ [][NextRT]_vars

\* C1: a value serialised into a Blob and restored into a default-constructed
\* object of the same type is restored without error, equals the original, and
\* every byte written has been read.
C1_RoundTrip ==
    pc = "restored" =>
        /\ err = "none"
        /\ mem[2] = mem[1]
        /\ offset_ = Len(blob_)
        /\ DOMAIN mem = {1, 2}

\* C1 witness: a map of two entries with composite values has been restored
C1_Witness ==
    /\ pc = "restored"
    /\ typ = TMap(TFund(1), Serdesables)
    /\ Len(mem[1]) = 2
    /\ mem[1][1][2] # mem[1][2][2]
    /\ mem[2] = mem[1]

-----------------------------------------------------------------------------
(* SpecPtr: objects with pointer members.  The source object is serialised,  *)
(* the bytes are loaded into a Blob with empty dictionaries, and an object   *)
(* of the same class is restored from it.                                    *)
(*                                                                           *)
(* Graph: MSERDES(MIND(&n.., ..), n1, .., nN), each node holding a pointer   *)
(* peer_ and a byte v_; the node class is either SERDES(peer_, v_) or        *)
(* MSERDES(MIND(&v_), peer_, v_).  A pointer holds null, the address of a    *)
(* node, or the address of a node's v_.                                      *)
(*                                                                           *)
(* Tree: RSERDES(MIND(l, r), REMIND(l, r), x, l, r), nodes on the heap.      *)

\* deepest tree, the root at depth 0
MaxDepth == 2

Node(macro) ==
    TClass(macro, IF macro = "MSERDES" THEN <<AddrOf(<<2>>)>> ELSE <<>>, <<>>,
           <<TPtr, TFund(1)>>)

Graph(ml, macro) ==
    TClass("MSERDES", ml, <<>>, [i \in 1..MaxLen |-> Node(macro)])

TreeNode ==
    TClass("RSERDES", <<ValOf(<<2>>), ValOf(<<3>>)>>, <<2, 3>>,
           <<TFund(1), TPtr, TPtr>>)

\* what a pointer member of a reused destination may hold: an address from
\* before, nothing lives there now
Stale == <<0>>

\* tree shapes: <<>> is no node, <<l, r>> a node with those subtrees
RECURSIVE Shapes(_)
Shapes(d) ==
    IF d = 0 THEN {<<<<>>, <<>>>>}
    ELSE {<<l, r>> : l \in {<<>>} \cup Shapes(d - 1),
                     r \in {<<>>} \cup Shapes(d - 1)}

\* the memory m with a tree of shape sh rooted at object o, every node's x its
\* object number
RECURSIVE Place(_, _, _)
Place(m, o, sh) ==
    LET lo == FreshObj(m)
        m1 == IF sh[1] = <<>> THEN m ELSE Place((lo :> <<>>) @@ m, lo, sh[1])
        ro == FreshObj(m1)
        m2 == IF sh[2] = <<>> THEN m1 ELSE Place((ro :> <<>>) @@ m1, ro, sh[2])
    IN  [m2 EXCEPT ![o] = <<<<o>>,
                            IF sh[1] = <<>> THEN NULL ELSE <<lo>>,
                            IF sh[2] = <<>> THEN NULL ELSE <<ro>>>>]

InitGraph ==
    \E macro \in {"SERDES", "MSERDES"}, old \in {NULL, Stale},
       ml \in SeqsUpTo({AddrOf(<<i>>) : i \in 1..MaxLen}, MaxLen) :
       \E peers \in [1..MaxLen ->
                        {NULL} \cup {<<1, i>> : i \in 1..MaxLen}
                        \cup (IF macro = "MSERDES"
                              THEN {<<1, i, 2>> : i \in 1..MaxLen} ELSE {})] :
          /\ typ = Graph(ml, macro)
          /\ Is([NewBlob EXCEPT !.mem =
                    (1 :> [i \in 1..MaxLen |-> <<peers[i], <<i>>>>]) @@
                    (2 :> [i \in 1..MaxLen |-> <<old, <<0>>>>])])

InitTree ==
    \E sh \in Shapes(MaxDepth), old \in {NULL, Stale} :
       /\ typ = TreeNode
       /\ Is([NewBlob EXCEPT !.mem =
                 Place((1 :> <<>>) @@ (2 :> <<<<0>>, old, old>>), 1, sh)])

InitPtr ==
    /\ InitGraph \/ InitTree
    /\ op = NoOp
    /\ ret = <<>>
    /\ pc = "start"

NextPtr ==
    \/ Serialize
    \/ Reload
    \/ Deserialize("loaded")

SpecPtr == InitPtr /\ [][NextPtr]_vars

\* the pass over the destination has ended without an exception
Restored == pc = "restored" /\ err = "none"

IsGraph == typ.macro = "MSERDES"

Nested == IsGraph /\ typ.args[1].macro = "MSERDES"

\* the part of the destination that corresponds to a part of the source
Counterpart(a) == <<2>> \o Tail(a)

\* the serialize pass over the source, on a Blob of its own
SrcPass == append([NewBlob EXCEPT !.mem = mem], typ, <<1>>, typ)

\* C2: two pointer members of the serialised object that hold the same
\* anchored address hold, after the restore pass, one address, and it is the
\* address the restore-time dictionary has under the id the shared target had
\* when it was serialised.
C2_SharedPointer ==
    (Restored /\ IsGraph) =>
        \A i, j \in 1..MaxLen :
            (i # j /\ mem[1][i][1] # NULL /\ mem[1][i][1] = mem[1][j][1]) =>
                LET k == SrcPass.mpu_[mem[1][i][1]]
                IN  /\ mem[2][i][1] = mem[2][j][1]
                    /\ k < Len(vp_)
                    /\ mem[2][i][1] = vp_[k + 1]

\* the same for graphs whose nodes are plain SERDES classes, with the shared
\* target's counterpart named by its place in the destination
C2_Flat ==
    (Restored /\ IsGraph /\ ~Nested) =>
        \A i, j \in 1..MaxLen :
            (i # j /\ mem[1][i][1] # NULL /\ mem[1][i][1] = mem[1][j][1]) =>
                /\ mem[2][i][1] = mem[2][j][1]
                /\ mem[2][i][1] = Counterpart(mem[1][i][1])
                /\ mem[2][i][1] = vp_[SrcPass.mpu_[mem[1][i][1]] + 1]

\* C3: a graph in which node A points to node B and B back to A is serialised
\* and restored in one step each, and the restored A points to the restored B
\* and the restored B to the restored A.
C3_Cycle ==
    (pc = "restored" /\ IsGraph) =>
        \A i, j \in 1..MaxLen :
            (i # j /\ mem[1][i][1] = <<1, j>> /\ mem[1][j][1] = <<1, i>>) =>
                /\ err = "none"
                /\ mem[2][i][1] = <<2, j>>
                /\ mem[2][j][1] = <<2, i>>

C3_Flat == Nested \/ C3_Cycle

\* the pointer members of a tree in the order serialize() reaches them, each
\* as the members to go through from the root
RECURSIVE TreePaths(_, _, _)
TreePaths(m, a, pre) ==
    LET sub(f) == IF GetAt(m, a \o <<f>>) = NULL THEN <<>>
                  ELSE TreePaths(m, GetAt(m, a \o <<f>>), pre \o <<f>>)
    IN  <<pre \o <<2>>, pre \o <<3>>>> \o sub(2) \o sub(3)

\* the address of the member a path leads to from the object at a, NULL when
\* a pointer on the way leads nowhere
RECURSIVE Follow(_, _, _)
Follow(m, a, path) ==
    IF Len(path) = 1 THEN a \o path
    ELSE IF ~Live(m, a \o <<Head(path)>>) THEN NULL
    ELSE IF ~Live(m, GetAt(m, a \o <<Head(path)>>)) THEN NULL
    ELSE Follow(m, GetAt(m, a \o <<Head(path)>>), Tail(path))

\* every pointer member of the source: its address, the address of the same
\* member of the destination, and where its id lies in the bytes
PtrFields ==
    IF IsGraph
    THEN [i \in 1..MaxLen |->
            [src |-> <<1, i, 1>>, dst |-> <<2, i, 1>>, off |-> 5 * (i - 1)]]
    ELSE LET ps == TreePaths(mem, <<1>>, <<>>)
         IN  [e \in 1..Len(ps) |->
                [src |-> Follow(mem, <<1>>, ps[e]),
                 dst |-> Follow(mem, <<2>>, ps[e]),
                 off |-> 9 * (((e + 1) \div 2) - 1)
                         + (IF e % 2 = 1 THEN 1 ELSE 5)]]

\* C4: in a serialize pass of the macros on a Blob whose dictionary was empty,
\* null has id 0 and every null pointer member is written as id 0; after the
\* restore pass the same member of the destination holds null.
C4_NullIsZero ==
    /\ pc = "appended" =>
          /\ vp_ # <<>>
          /\ vp_[1] = NULL
          /\ mpu_[NULL] = 0
          /\ \A e \in DOMAIN PtrFields :
                LET f == PtrFields[e]
                IN  (GetAt(mem, f.src) = NULL /\ f.off + 4 <= Len(blob_)) =>
                        SubSeq(blob_, f.off + 1, f.off + 4) = Zeros(4)
          /\ err = "none" =>
                \A e \in DOMAIN PtrFields : PtrFields[e].off + 4 <= Len(blob_)
    /\ Restored =>
          \A e \in DOMAIN PtrFields :
             LET f == PtrFields[e]
             IN  GetAt(mem, f.src) = NULL =>
                    /\ Live(mem, f.dst)
                    /\ GetAt(mem, f.dst) = NULL

\* C4 witness: a graph whose nodes run mind() and remind() themselves has
\* been restored; its first node's pointer was null and is null, its second
\* node's pointer was not and is not
C4_Witness ==
    /\ Restored
    /\ Nested
    /\ mem[1][1][1] = NULL
    /\ mem[2][1][1] = NULL
    /\ mem[1][2][1] # NULL
    /\ mem[2][2][1] # NULL
    /\ Len(vp_) > 2

-----------------------------------------------------------------------------
(* SpecTwo: two objects of one type are serialised, each into a Blob of its  *)
(* own, and the bytes of both are written to one file, one after the other.  *)
(* A Blob is built from the whole file, and two objects are constructed from *)
(* it in turn, with no reset() between them.                                 *)

\* most nodes of a DataTree
MaxNodes == 4

\* class DataTree { int x; vector<DataTree> v; SERDES(DataTree, x, v) }
DataTree == TClass("SERDES", <<>>, <<>>, <<TFund(4), TSeq(TSelf)>>)

RECURSIVE Forests(_)
RECURSIVE DataTrees(_)

\* the vectors of DataTree objects with n nodes altogether
Forests(n) ==
    IF n = 0 THEN {<<>>}
    ELSE UNION {{<<t>> \o f : t \in DataTrees(k), f \in Forests(n - k)} :
                    k \in 1..n}

\* the DataTree objects of n nodes, every x the number of nodes below it, with
\* bytes that are not zero above the lowest
DataTrees(n) == {<<<<n - 1, 255, 0, 1>>, f>> : f \in Forests(n - 1)}

\* the pairs of objects serialised: of the sampled types one and itself or a
\* default-constructed one, of DataTree any two
Pairs(t) ==
    IF t = DataTree
    THEN LET T == UNION {DataTrees(n) : n \in 1..MaxNodes} IN T \X T
    ELSE UNION {{<<v, v>>, <<v, Default(t)>>, <<Default(t), v>>} :
                    v \in Values(t)}

\* ret is the file: its bytes, and where each written Blob ended
InitTwo ==
    \E t \in {TypeSample[i] : i \in DOMAIN TypeSample} \cup {DataTree} :
       \E p \in Pairs(t) :
          /\ typ = t
          /\ Is([NewBlob EXCEPT !.mem = (1 :> p[1]) @@ (2 :> p[2])])
          /\ op = NoOp
          /\ ret = [file |-> <<>>, cut |-> <<>>]
          /\ pc = "start"

\* Blob b(src); copy(b.begin(), b.end(), ostream_iterator<char>(blob_file));
Write(from, i, to) ==
    /\ pc = from
    /\ err = "none"
    /\ Becomes(append([NewBlob EXCEPT !.mem = mem], typ, <<i>>, typ))
    /\ ret' = [file |-> ret.file \o blob_',
               cut  |-> Append(ret.cut, Len(ret.file \o blob_'))]
    /\ op' = [name |-> "append", arg |-> <<i>>]
    /\ pc' = to
    /\ UNCHANGED typ

\* Blob b(istream_iterator<char>(blob_file), istream_iterator<char>{});
Read ==
    /\ pc = "written"
    /\ err = "none"
    /\ Becomes([NewBlob EXCEPT !.mem = mem, !.blob_ = ret.file])
    /\ op' = [name |-> "Blob", arg |-> <<>>]
    /\ pc' = "read"
    /\ UNCHANGED <<ret, typ>>

\* T dst(b);  which is  T(Blob &__blob__): T() { deserialize(__blob__); }
Construct(from, o, to) ==
    /\ pc = from
    /\ err = "none"
    /\ \E g \in Overread :
          Becomes(restore(Alloc(Cur, o, Default(typ)), typ, <<o>>, typ, g))
    /\ op' = [name |-> "restore", arg |-> <<o>>]
    /\ pc' = to
    /\ UNCHANGED <<ret, typ>>

NextTwo ==
    \/ Write("start", 1, "one")
    \/ Write("one", 2, "written")
    \/ Read
    \/ Construct("read", 3, "first")
    \/ Construct("first", 4, "second")

SpecTwo == InitTwo /\ [][NextTwo]_vars

-----------------------------------------------------------------------------
(* SpecTree: trees without shared nodes.  The root is serialised, the bytes  *)
(* are loaded into a Blob with empty dictionaries, and a default-constructed *)
(* root is restored from it.  The children of a node are the elements of its *)
(* vector (DataTree) or what its two recursive pointers lead to (TreeNode).  *)

InitTree0 ==
    \E sh \in Shapes(MaxDepth) :
       /\ typ = TreeNode
       /\ Is([NewBlob EXCEPT !.mem =
                 Place((1 :> <<>>) @@ (2 :> Default(TreeNode)), 1, sh)])

InitDataTree ==
    \E n \in 1..MaxNodes : \E t \in DataTrees(n) :
       /\ typ = DataTree
       /\ Is([NewBlob EXCEPT !.mem = (1 :> t) @@ (2 :> Default(DataTree))])

InitTrees ==
    /\ InitTree0 \/ InitDataTree
    /\ op = NoOp
    /\ ret = <<>>
    /\ pc = "start"

SpecTree == InitTrees /\ [][NextPtr]_vars

\* the trees of TreeNode objects at a and at b have one shape and the same x
\* in every node, and share no node
RECURSIVE SameTree(_, _, _)
SameTree(m, a, b) ==
    /\ Live(m, a)
    /\ Live(m, b)
    /\ a # b
    /\ GetAt(m, a \o <<1>>) = GetAt(m, b \o <<1>>)
    /\ \A f \in {2, 3} :
          LET p == GetAt(m, a \o <<f>>)
              q == GetAt(m, b \o <<f>>)
          IN  IF p = NULL THEN q = NULL
              ELSE q # NULL /\ SameTree(m, p, q)

\* the number of nodes of the tree of TreeNode objects at a
RECURSIVE TreeSize(_, _)
TreeSize(m, a) ==
    LET sub(f) == IF GetAt(m, a \o <<f>>) = NULL THEN 0
                  ELSE TreeSize(m, GetAt(m, a \o <<f>>))
    IN  1 + sub(2) + sub(3)

\* C12: a tree without shared nodes, serialised from its root and restored
\* into a default-constructed root, is restored without error with the same
\* shape and the same value in every node; with recursive pointers, a node is
\* allocated for every non-null pointer of the source and for no other.
C12_TreeRoundTrip ==
    pc = "restored" =>
        /\ err = "none"
        /\ offset_ = Len(blob_)
        /\ IF typ = DataTree
           THEN mem[2] = mem[1] /\ DOMAIN mem = {1, 2}
           ELSE /\ SameTree(mem, <<1>>, <<2>>)
                /\ Cardinality(DOMAIN mem) = 2 * TreeSize(mem, <<1>>)

\* C12 witness: a tree of recursive pointers with a left child that has only
\* a right child, and no right child at the root, has been restored
C12_Witness ==
    /\ pc = "restored"
    /\ typ = TreeNode
    /\ mem[1][2] # NULL
    /\ mem[1][3] = NULL
    /\ GetAt(mem, mem[1][2] \o <<2>>) = NULL
    /\ GetAt(mem, mem[1][2] \o <<3>>) # NULL
    /\ mem[2][2] # NULL
    /\ mem[2][3] = NULL
    /\ GetAt(mem, mem[2][2] \o <<3>>) # NULL

-----------------------------------------------------------------------------
(* The pending pointer table, in SpecDict. *)

\* the ids under which the pending table holds the slot loc
IdsOf(pl, loc) == {k \in DOMAIN pl : loc \in pl[k]}

\* C13: a restore of a pointer member that decodes an id for a slot the
\* pending table already holds, under that id or another, fails with
\* DuplicatePointerLocation; and the pending table never holds a slot under
\* two ids.
C13_DuplicateSlot ==
    [][/\ (/\ op'.name = "restore_ptr"
           /\ err' \notin {"out_of_range", "SIGSEGV"}
           /\ IdsOf(mpl_, op'.arg) # {})
          => err' = "DuplicatePointerLocation"
       /\ \A loc \in Slots : Cardinality(IdsOf(mpl_', loc)) <= 1
    ]_vars

\* C14: remind() with more ids in the pending table than addresses in the
\* dictionary fails with MissingPointers and writes no slot; remind() with an
\* empty pending table changes nothing and does not fail.
C14_MissingPointers ==
    [][op'.name = "remind" =>
        IF DOMAIN mpl_ = {}
        THEN /\ err' = "none"
             /\ UNCHANGED <<mem, mpl_, vp_, mpu_, blob_, offset_>>
        ELSE Cardinality(DOMAIN mpl_) > Len(vp_) =>
                /\ err' = "MissingPointers"
                /\ mem' = mem
    ]_vars

\* C14 witness: with one address in the dictionary and both pointer members
\* pending under two ids, remind() has failed and written neither
C14_Witness ==
    /\ op.name = "remind"
    /\ err = "MissingPointers"
    /\ Len(vp_) = 1
    /\ Cardinality(DOMAIN mpl_) = 2
    /\ UNION {mpl_[k] : k \in DOMAIN mpl_} = Slots
    /\ mem[1] = <<NULL, NULL>>

\* C15: reset() leaves the cursor at 0, both directions of the address
\* dictionary and the pending pointer table empty, and the bytes as they were;
\* clear() leaves the same and no bytes (size() is 0, empty() holds); neither
\* touches the program's objects.
C15_ResetClear ==
    [][op'.name \in {"reset", "clear"} =>
        /\ offset_' = 0
        /\ vp_' = <<>>
        /\ DOMAIN mpu_' = {}
        /\ DOMAIN mpl_' = {}
        /\ mem' = mem
        /\ op'.name = "reset" => blob_' = blob_
        /\ op'.name = "clear" => Len(blob_') = 0 /\ blob_' = <<>>
    ]_vars

\* C15 witness: reset() has acted on a Blob that holds two ids, after a
\* remind() that resolved a pointer member
C15_Witness ==
    /\ op.name = "reset"
    /\ Len(blob_) = 8
    /\ offset_ = 0
    /\ vp_ = <<>>
    /\ mem[1][2] # NULL

-----------------------------------------------------------------------------
(* SpecVar: the members of an object are appended to one Blob by a single    *)
(* variadic call and to a second Blob by one call each, in the order of      *)
(* declaration; then they are restored from the first Blob by a single       *)
(* variadic call and from the second by one call each.  ret is the second    *)
(* Blob and the number of calls made on it in the current phase.             *)

\* a class with three members of different kinds
Mixed == TClass("SERDES", <<>>, <<>>, <<TFund(2), TStr, Fundamentals>>)

VarSample == {Fundamentals, TrivialContainers, Mixed}

InitVar ==
    \E t \in VarSample : \E v \in Values(t) :
       /\ typ = t
       /\ Is([NewBlob EXCEPT !.mem = (1 :> v) @@ (2 :> Default(t))
                                     @@ (3 :> Default(t))])
       /\ op = NoOp
       /\ ret = [b |-> NewBlob, i |-> 0]
       /\ pc = "start"

\* b.append(a1, ..., an);
AppendAll ==
    /\ pc = "start"
    /\ Becomes(appendArgs(Cur, typ, <<1>>, 1))
    /\ op' = [name |-> "append", arg |-> <<1>>]
    /\ pc' = "appending"
    /\ UNCHANGED <<ret, typ>>

\* c.append(ai);  for the next i
AppendOne ==
    /\ pc = "appending"
    /\ ret.i < Len(typ.args)
    /\ LET i == ret.i + 1
           r == append([ret.b EXCEPT !.mem = mem], typ.args[i], <<1, i>>, typ)
       IN  /\ ret' = [b |-> r, i |-> i]
           /\ op' = [name |-> "append", arg |-> <<1, i>>]
    /\ UNCHANGED <<blob_, offset_, mpu_, vp_, mpl_, cptr_, vptr_, mem, err, pc,
                 typ>>

\* b.restore(r1, ..., rn);
RestoreAll ==
    /\ pc = "appending"
    /\ ret.i = Len(typ.args)
    /\ \E g \in Overread : Becomes(restoreArgs(Cur, typ, <<2>>, 1, g))
    /\ ret' = [ret EXCEPT !.i = 0]
    /\ op' = [name |-> "restore", arg |-> <<2>>]
    /\ pc' = "restoring"
    /\ UNCHANGED typ

\* c.restore(ri);  for the next i
RestoreOne ==
    /\ pc = "restoring"
    /\ ret.i < Len(typ.args)
    /\ \E g \in Overread :
          LET i == ret.i + 1
              r == restore([ret.b EXCEPT !.mem = mem], typ.args[i], <<3, i>>,
                           typ, g)
          IN  /\ ret' = [b |-> r, i |-> i]
              /\ mem' = r.mem
              /\ op' = [name |-> "restore", arg |-> <<3, i>>]
    /\ UNCHANGED <<blob_, offset_, mpu_, vp_, mpl_, cptr_, vptr_, err, pc, typ>>

NextVar ==
    \/ AppendAll
    \/ AppendOne
    \/ RestoreAll
    \/ RestoreOne

SpecVar == InitVar /\ [][NextVar]_vars

\* C16: the bytes one variadic append leaves are the bytes the appends of the
\* same arguments one by one, in order, leave; one variadic restore fills its
\* arguments and moves the cursor as the restores one by one, in order, do;
\* and what is restored in that order is what was appended.
C16_VariadicOrder ==
    /\ pc = "appending" =>
          /\ err = "none" /\ ret.b.err = "none"
          /\ ret.b.blob_ = SubSeq(blob_, 1, Len(ret.b.blob_))
          /\ ret.i = Len(typ.args) => ret.b.blob_ = blob_
    /\ pc = "restoring" =>
          /\ err = "none" /\ ret.b.err = "none"
          /\ \A j \in 1..ret.i : mem[3][j] = mem[2][j]
          /\ ret.i = Len(typ.args) =>
                /\ mem[3] = mem[2]
                /\ ret.b.offset_ = offset_
          /\ mem[2] = mem[1]
          /\ offset_ = Len(blob_)

\* C16 witness: three members of different kinds and sizes, none of them
\* default, have been restored by both Blobs
C16_Witness ==
    /\ pc = "restoring"
    /\ typ = Mixed
    /\ ret.i = 3
    /\ mem[3][1] # <<0, 0>>
    /\ Len(mem[3][2]) = MaxLen
    /\ mem[3][3] # Default(Fundamentals)
    /\ mem[3] = mem[1]

-----------------------------------------------------------------------------
(* SpecJsl: the row handling of jsl.  The JSON walk calls json_callback()    *)
(* for every node with a mapped label.  mem is the row (the values held for  *)
(* each mapped label), typ the options (-m labels in order, the labels with  *)
(* -e before them), ret the shared resource: table_info.size(), autokeys,    *)
(* ignored.size(), updates, the column definitions collected for -a, and the *)
(* calls of dump_row() made by the last callback, each with the row it was   *)
(* given, the sizes at that moment and the row and count it left.            *)

\* most columns of a table found in the db
MaxCols == 3

\* most members of a JSON array or object that is expanded
MaxKids == 2

\* most rows written to the db
MaxUpdates == 2

\* most values in a row
MaxRow == 4

\* size_t(-1): above every size that occurs
SizeMax == 2147483647

\* a - b in size_t
sizeSub(a, b) == IF a >= b THEN a - b ELSE SizeMax - (b - a) + 1

RECURSIVE SumOver(_, _)
SumOver(f, S) ==
    IF S = {} THEN 0
    ELSE LET x == CHOOSE y \in S : TRUE IN f[x] + SumOver(f, S \ {x})

\* row_size(row): total of the sizes of all vectors in the row
row_size(row) == SumOver([l \in DOMAIN row |-> Len(row[l])], DOMAIN row)

\* clear_row(row): for(auto &vs: row) vs.second.clear();
clear_row(row) == [l \in DOMAIN row |-> <<>>]

\* update_row(r, row, node, cschema): a node that is atomic or not expanded
\* gives one value, an expanded one a value for each of its n members; with
\* cschema a column definition goes along with every value
update_row(j, l, n, a) ==
    LET k == IF l \in j.exp THEN n ELSE 1
    IN  [j EXCEPT !.row[l] = @ \o [i \in 1..k |-> i],
                  !.cschema[l] = IF a THEN @ + k ELSE @]

\* dump_row(r, db, row): db << rout; clear_row(row); ++updates;
dump_row(j) ==
    [j EXCEPT !.row = clear_row(@),
              !.updates = @ + 1,
              !.wrote = Append(@, [row     |-> j.row,
                                   cols    |-> j.table_info,
                                   autos   |-> j.autokeys,
                                   ign     |-> j.ignored,
                                   before  |-> j.updates,
                                   updates |-> j.updates + 1,
                                   after   |-> clear_row(j.row)])]

\* schema_generated(r, db, row, node): the first value of a label is taken into
\* the row and its column defined; a label that comes again has the table
\* created from the columns defined so far and the row written
schema_generated(j, l, n) ==
    IF j.row[l] = <<>>
    THEN [j |-> update_row(j, l, n, TRUE), ok |-> FALSE]
    ELSE [j |-> dump_row([j EXCEPT !.table_info =
                                      SumOver(j.cschema, DOMAIN j.cschema)]),
          ok |-> TRUE]

\* json_callback(r, db, row, node) for a node of label l with n members
json_callback(j0, l, n) ==
    LET g    == IF j0.table_info = 0 THEN schema_generated(j0, l, n)
                ELSE [j |-> j0, ok |-> TRUE]
        j    == g.j
        full == sizeSub(sizeSub(j.table_info, j.autokeys), j.ignored)
        over == row_size(j.row) > full
        u    == update_row(IF over THEN [j EXCEPT !.row = clear_row(@)] ELSE j,
                           l, n, FALSE)
    IN  IF ~g.ok THEN j
        ELSE IF over /\ l # j.map[1] THEN j
        ELSE IF row_size(u.row) < full THEN u
        ELSE IF row_size(u.row) > full
                \/ \E x \in DOMAIN u.row : u.row[x] = <<>> THEN u
        ELSE dump_row(u)

Labels == <<"a", "b">>

\* the shared resource and the row as the fields of one record
Jsl == [row        |-> mem,
        map        |-> typ.map,
        exp        |-> typ.exp,
        table_info |-> ret.table_info,
        autokeys   |-> ret.autokeys,
        ignored    |-> ret.ignored,
        updates    |-> ret.updates,
        cschema    |-> ret.cschema,
        wrote      |-> <<>>]

\* update_table() has placed the callbacks: an empty vector for every mapped
\* label; table_info is empty when the table is yet to be generated (-a)
InitJsl ==
    \E cols \in 0..MaxCols, autos \in 0..1, ign \in 0..1,
       exp \in SUBSET {Labels[i] : i \in DOMAIN Labels} :
       /\ autos <= cols
       /\ typ = [map |-> Labels, exp |-> exp]
       /\ Is([NewBlob EXCEPT !.mem =
                 [l \in {Labels[i] : i \in DOMAIN Labels} |-> <<>>]])
       /\ ret = [table_info |-> cols, autokeys |-> autos, ignored |-> ign,
                 updates |-> 0,
                 cschema |-> [l \in {Labels[i] : i \in DOMAIN Labels} |-> 0],
                 wrote |-> <<>>]
       /\ op = NoOp
       /\ pc = "jsl"

\* the walk reaches a node with a mapped label
JsonCallback ==
    /\ pc = "jsl"
    /\ ret.updates < MaxUpdates
    /\ row_size(mem) < MaxRow
    /\ \E i \in DOMAIN Labels, n \in 0..MaxKids :
          LET j == json_callback(Jsl, Labels[i], n)
          IN  /\ mem' = j.row
              /\ ret' = [table_info |-> j.table_info, autokeys |-> j.autokeys,
                         ignored |-> j.ignored, updates |-> j.updates,
                         cschema |-> j.cschema, wrote |-> j.wrote]
              /\ op' = [name |-> "json_callback", arg |-> <<Labels[i], n>>]
    /\ UNCHANGED <<blob_, offset_, mpu_, vp_, mpl_, cptr_, vptr_, err, pc, typ>>

NextJsl == JsonCallback

SpecJsl == InitJsl /\ [][NextJsl]_vars

\* C17: every row a callback writes to the database holds as many values as
\* the table has columns less the AUTOINCREMENT ones less the ignored ones,
\* with at least one value for every mapped label (so a row of more values
\* is never written); the write adds exactly one to the count of updates and
\* leaves the row empty; and the count moves with the writes only.
C17_RowFlush ==
    [][/\ \A e \in DOMAIN ret'.wrote :
             LET w == ret'.wrote[e]
             IN  /\ row_size(w.row) = w.cols - w.autos - w.ign
                 /\ \A l \in DOMAIN w.row : w.row[l] # <<>>
                 /\ w.updates = w.before + 1
                 /\ row_size(w.after) = 0
       /\ ret'.updates = ret.updates + Len(ret'.wrote)
    ]_vars

\* the same for a table that was in the db before the walk began
C17_TableGiven ==
    [][SumOver(ret'.cschema, DOMAIN ret'.cschema) = 0 =>
        /\ \A e \in DOMAIN ret'.wrote :
              LET w == ret'.wrote[e]
              IN  /\ row_size(w.row) = w.cols - w.autos - w.ign
                  /\ \A l \in DOMAIN w.row : w.row[l] # <<>>
                  /\ w.updates = w.before + 1
                  /\ row_size(w.after) = 0
        /\ ret'.updates = ret.updates + Len(ret'.wrote)
    ]_vars

-----------------------------------------------------------------------------
(* The ids of the two passes, in SpecPtr. *)

\* the part of the destination graph that corresponds to a part of the
\* source graph, null for null
Twin(a) == IF a = NULL THEN NULL ELSE Counterpart(a)

\* the recursive pointers of the tree at a, each with the pointer in the same
\* place of the tree at b
RECURSIVE TwinPairs(_, _, _)
TwinPairs(m, a, b) ==
    UNION {LET p == GetAt(m, a \o <<f>>)
               q == GetAt(m, b \o <<f>>)
           IN  IF p = NULL \/ q = NULL \/ ~Live(m, q) THEN {<<p, q>>}
               ELSE {<<p, q>>} \cup TwinPairs(m, p, q) : f \in {2, 3}}

\* every address of the serialize-time dictionary d has its id in the
\* restore-time dictionary, where the address tw gives for it stands
Aligned(d, tw) ==
    \A a \in DOMAIN d : d[a] < Len(vp_) /\ vp_[d[a] + 1] = tw[a]

\* C18: after a restore pass of an object with pointer members, whether its
\* member objects mind and remind pointers themselves or not, every address
\* that had id k in the serialize pass has its counterpart in the restored
\* object under id k in the dictionary of the restore pass, and every pointer
\* member holds the counterpart of what the same member of the source holds.
C18_IdAlignment ==
    Restored =>
        IF IsGraph
        THEN /\ Aligned(SrcPass.mpu_, [a \in DOMAIN SrcPass.mpu_ |-> Twin(a)])
             /\ \A i \in 1..MaxLen : mem[2][i][1] = Twin(mem[1][i][1])
        ELSE LET tp == TwinPairs(mem, <<1>>, <<2>>)
             IN  /\ \A a \in DOMAIN SrcPass.mpu_ : \E e \in tp : e[1] = a
                 /\ \A e \in tp :
                       /\ e[1] = NULL <=> e[2] = NULL
                       /\ SrcPass.mpu_[e[1]] < Len(vp_)
                       /\ vp_[SrcPass.mpu_[e[1]] + 1] = e[2]

\* the same for objects whose member objects are plain SERDES classes, and
\* for trees
C18_Flat == Nested \/ C18_IdAlignment

-----------------------------------------------------------------------------
(* SpecScope: the objects of SpecPtr, restored either after reset() or from  *)
(* the very Blob they were serialised into, with no reset() in between.      *)

\* Blob b(src); b.restore(dst);
RestoreKept ==
    /\ pc = "appended"
    /\ err = "none"
    /\ \E g \in Overread : Becomes(restore(Cur, typ, <<2>>, typ, g))
    /\ op' = [name |-> "restore", arg |-> <<2>>]
    /\ pc' = "restored_kept"
    /\ UNCHANGED <<ret, typ>>

NextScope ==
    \/ Serialize
    \/ Reload
    \/ Deserialize("loaded")
    \/ RestoreKept

SpecScope == InitPtr /\ [][NextScope]_vars

\* the addresses the serialize pass has minded
SrcAddrs == DOMAIN SrcPass.mpu_ \ {NULL}

\* the pointer members of the destination's root, and of the source's
RootPtrs(o) ==
    IF IsGraph THEN [i \in 1..MaxLen |-> mem[o][i][1]]
    ELSE <<mem[o][2], mem[o][3]>>

\* C19 (as stated): after a restore pass that returned normally, with or
\* without a reset() since the serialize pass, the dictionary holds no address
\* the serialize pass has minded, and no pointer member of the destination
\* holds one.
C19_DictionaryScoping ==
    (pc \in {"restored", "restored_kept"} /\ err = "none") =>
        /\ \A k \in DOMAIN vp_ : vp_[k] \notin SrcAddrs
        /\ \A i \in DOMAIN RootPtrs(2) : RootPtrs(2)[i] \notin SrcAddrs

\* C19 (amended): the dictionary holds what was minded since the last
\* reset().  After a restore pass with no reset() since the serialize pass it
\* begins with the serialize-time addresses under their ids, and every pointer
\* member of the destination's root holds the address the same member of the
\* source holds; after a restore pass that followed a reset() it holds no
\* serialize-time address.
C19_ScopedByReset ==
    /\ (pc = "restored_kept" /\ err = "none") =>
          /\ SubSeq(vp_, 1, Len(SrcPass.vp_)) = SrcPass.vp_
          /\ RootPtrs(2) = RootPtrs(1)
    /\ (pc = "restored" /\ err = "none") =>
          \A k \in DOMAIN vp_ : vp_[k] \notin SrcAddrs

\* C19 witness: restored with no reset(), the destination's second node
\* points to the source's first node
C19_Witness ==
    /\ pc = "restored_kept"
    /\ err = "none"
    /\ IsGraph
    /\ mem[1][2][1] = <<1, 1>>
    /\ mem[2][2][1] = <<1, 1>>
    /\ Len(vp_) > Len(SrcPass.vp_)

-----------------------------------------------------------------------------
(* SpecMind: the address dictionary under mind() of single addresses, of     *)
(* nullptr and of containers of addresses, and reset().                      *)

\* mind(c), c a container of pointers
DoMindContainer ==
    /\ err = "none"
    /\ \E c \in UNION {[1..n -> Targets] : n \in 0..MaxLen} :
          /\ Becomes(mind(Cur, c))
          /\ op' = [name |-> "mind_c", arg |-> c]
    /\ ret' = <<>>
    /\ UNCHANGED <<pc, typ>>

NextMind ==
    \/ DoMind
    \/ DoMindContainer
    \/ DoReset

SpecMind == InitDict /\ [][NextMind]_vars

\* the addresses of c that are not in known, each once, in the order they
\* come first
RECURSIVE FirstSeen(_, _)
FirstSeen(known, c) ==
    IF c = <<>> THEN <<>>
    ELSE IF Head(c) \in known THEN FirstSeen(known, Tail(c))
    ELSE <<Head(c)>> \o FirstSeen(known \cup {Head(c)}, Tail(c))

\* C20: whatever was minded (addresses, nullptr, containers of addresses) and
\* reset, the ids of the dictionary are 0..n-1, every address in it has one
\* id and is the address the list holds at that id, and the list is as long
\* as the map has entries; a mind() adds the addresses that are new to the end
\* of the list in the order they are presented and changes nothing for known
\* ones.
C20_DictionaryBijection ==
    [][/\ Len(vp_') = Cardinality(DOMAIN mpu_')
       /\ \A a \in DOMAIN mpu_' :
             /\ mpu_'[a] \in 0..(Len(vp_') - 1)
             /\ vp_'[mpu_'[a] + 1] = a
       /\ op'.name \in {"mind", "mind_c"} =>
             LET c == IF op'.name = "mind" THEN <<op'.arg>> ELSE op'.arg
             IN  /\ vp_' = vp_ \o FirstSeen(DOMAIN mpu_, c)
                 /\ \A a \in DOMAIN mpu_ : mpu_'[a] = mpu_[a]
                 /\ FirstSeen(DOMAIN mpu_, c) = <<>> => mpu_' = mpu_
    ]_vars

\* C20 witness: a container of a known address and null has been minded into
\* a dictionary that held that address and one more
C20_Witness ==
    /\ op.name = "mind_c"
    /\ op.arg = <<<<3>>, NULL>>
    /\ vp_ = <<<<2>>, <<3>>, NULL>>
    /\ mpu_[NULL] = 2

-----------------------------------------------------------------------------
(* The resolution step, in SpecDict. *)

\* the slots the pending table holds
Pending(pl) == UNION {pl[k] : k \in DOMAIN pl}

\* what a remind() that returned normally has left: the pending table empty,
\* every slot recorded under an id holding the address the list has at that
\* id, recorded under that id alone, and every other slot as it was
Resolved ==
    /\ DOMAIN mpl_' = {}
    /\ \A k \in DOMAIN mpl_ : \A loc \in mpl_[k] :
          /\ VpInRange(Cur, k)
          /\ GetAt(mem', loc) = vp_[LEToNat(k) + 1]
          /\ IdsOf(mpl_, loc) = {k}
    /\ \A loc \in Slots \ Pending(mpl_) : GetAt(mem', loc) = GetAt(mem, loc)
    /\ \A o \in DOMAIN mem \ {1} : mem'[o] = mem[o]

C21_Sound ==
    [][(/\ op'.name = "remind"
        /\ err' = "none"
        /\ \A k \in DOMAIN mpl_ : VpInRange(Cur, k)
        /\ \A loc \in Slots : Cardinality(IdsOf(mpl_, loc)) <= 1)
       => Resolved]_vars

\* the id the next pointer restore decodes
NextId == SubSeq(blob_, offset_ + 1, offset_ + 4)

\* C22: restoring a pointer field consumes exactly one unsigned id from the
\* buffer and records the field's own location under that id in the pending
\* table; it does not write the pointer field, nor anything else in memory.
C22_DeferredPointer ==
    [][op'.name = "restore_ptr" =>
         /\ mem' = mem
         /\ blob_' = blob_ /\ vp_' = vp_ /\ mpu_' = mpu_
         /\ err' = "none" =>
               /\ offset_' = offset_ + 4
               /\ offset_' <= Len(blob_)
               /\ DOMAIN mpl_' = DOMAIN mpl_ \cup {NextId}
               /\ \A k \in DOMAIN mpl_' :
                     mpl_'[k] = (IF k \in DOMAIN mpl_ THEN mpl_[k] ELSE {})
                                \cup (IF k = NextId THEN {op'.arg} ELSE {})]_vars

\* a pointer member has been restored, its id names an address of the list,
\* and the member does not hold that address yet
C22_Witness ==
    /\ op.name = "restore_ptr" /\ err = "none"
    /\ \E k \in DOMAIN mpl_ :
          /\ op.arg \in mpl_[k]
          /\ VpInRange(Cur, k)
          /\ GetAt(mem, op.arg) # vp_[LEToNat(k) + 1]

-----------------------------------------------------------------------------
(* The revision of class Blob whose SERDES macro takes the class name and   *)
(* pointer-provider callbacks: no dictionary, two stacks of host pointers.  *)

\* a SERDES argument that is a pointer-provider callback, &CLASS::provider;
\* ms are the pointer members the provider looks after
TCb(ms) == [k |-> "cb", ms |-> ms]

\* SERDES(DataTreePtr, x, &DataTreePtr::ptr_provider); members x, l, r
DataTreePtr ==
    TClass("SERDES", <<>>, <<2, 3>>, <<TFund(4), TCb(<<2, 3>>)>>)

\* the same class with one provider for each pointer member
SplitTreePtr ==
    TClass("SERDES", <<>>, <<2, 3>>, <<TFund(4), TCb(<<2>>), TCb(<<3>>)>>)

\* a class of the same layout whose first member is a DataTreePtr
WrapTreePtr ==
    TClass("SERDES", <<>>, <<2, 3>>, <<DataTreePtr, TCb(<<2, 3>>)>>)

\* CLASS(): x{0}, l{nullptr}, r{nullptr}
RECURSIVE NewHost(_)
NewHost(d) ==
    <<IF d.args[1].k = "fund" THEN Zeros(d.args[1].w) ELSE NewHost(d.args[1]),
      NULL, NULL>>

\* the state of a pass together with the list of provider calls it made: the
\* instance each one ran on (on) and the instance whose serialize() or
\* deserialize() made it (of)
Traced(s) ==
    [blob_ |-> s.blob_, offset_ |-> s.offset_, mpu_ |-> s.mpu_, vp_ |-> s.vp_,
     mpl_ |-> s.mpl_, cptr_ |-> s.cptr_, vptr_ |-> s.vptr_, mem |-> s.mem,
     err |-> s.err, calls |-> <<>>]

Called(s, h, a) == [s EXCEPT !.calls = Append(@, [on |-> h, of |-> a])]

\* __push_host__(const void *ptr), __push_host__(void *ptr)
push_host_c(s, ptr) == IF ~Ok(s) THEN s ELSE [s EXCEPT !.cptr_ = Append(@, ptr)]

push_host_v(s, ptr) == IF ~Ok(s) THEN s ELSE [s EXCEPT !.vptr_ = Append(@, ptr)]

\* mutant: the host of a finished serialize() stays on the stack
popAppendedKeep(s) == s

\* __pop_appended__(): if(not cptr_.empty()) cptr_.pop_back();
pop_appended(s) ==
    IF ~Ok(s) \/ s.cptr_ = <<>> THEN s
    ELSE [s EXCEPT !.cptr_ = SubSeq(@, 1, Len(@) - 1)]

\* __pop_restored__(): if(not vptr_.empty()) vptr_.pop_back();
pop_restored(s) ==
    IF ~Ok(s) \/ s.vptr_ = <<>> THEN s
    ELSE [s EXCEPT !.vptr_ = SubSeq(@, 1, Len(@) - 1)]

RECURSIVE append_cb(_, _, _, _)
RECURSIVE appendArgs_cb(_, _, _, _)
RECURSIVE serialize_cb(_, _, _)
RECURSIVE ptr_provider_c(_, _, _, _, _)

\* append(const T &v) of that revision, for the object of type t at a
append_cb(s, t, a, self) ==
    IF ~Ok(s) THEN s
    ELSE CASE t.k = "fund"  -> append_fund(s, GetAt(s.mem, a))
           [] t.k = "class" -> serialize_cb(s, t, a)
           [] t.k = "self"  -> serialize_cb(s, self, a)

\* append(void (T::*cb)(Blob &) const) for each callback among the arguments:
\*     (static_cast<const T*>(cptr_.back())->*cb)(*this);
appendArgs_cb(s, d, a, i) ==
    IF i > Len(d.args) \/ ~Ok(s) THEN s
    ELSE LET t == d.args[i]
             h == s.cptr_[Len(s.cptr_)]
             w == IF t.k # "cb" THEN append_cb(s, t, a \o <<i>>, d)
                  ELSE IF s.cptr_ = <<>> THEN Throw(s, "SIGSEGV")
                  ELSE ptr_provider_c(Called(s, h, a), d, h, t.ms, 1)
         IN  appendArgs_cb(w, d, a, i + 1)

\* serialize(Blob &) const of SERDES(CLASS, Args...)
serialize_cb(s, d, a) ==
    pop_appended(appendArgs_cb(push_host_c(s, a), d, a, 1))

\* mutant: a provider that writes the pointed-to instance without the flag
ptrProviderNoFlag(s, d, h, ms, i) ==
    IF i > Len(ms) \/ ~Ok(s) THEN s
    ELSE LET X == GetAt(s.mem, h \o <<ms[i]>>)
         IN  ptr_provider_c(IF X # NULL THEN append_cb(s, d, X, d) ELSE s,
                            d, h, ms, i + 1)

\* ptr_provider(Blob &b) const, this = h:
\*     if(b.append(l != nullptr)) b.append(*l);
ptr_provider_c(s, d, h, ms, i) ==
    IF i > Len(ms) \/ ~Ok(s) THEN s
    ELSE LET X == GetAt(s.mem, h \o <<ms[i]>>)
             f == append_fund(s, <<IF X # NULL THEN 1 ELSE 0>>)
         IN  ptr_provider_c(IF X # NULL THEN append_cb(f, d, X, d) ELSE f,
                            d, h, ms, i + 1)

RECURSIVE restore_cb(_, _, _, _, _)
RECURSIVE restoreArgs_cb(_, _, _, _, _)
RECURSIVE deserialize_cb(_, _, _, _)
RECURSIVE ptr_provider_v(_, _, _, _, _, _)

\* restore(T &r) of that revision
restore_cb(s, t, a, self, g) ==
    IF ~Ok(s) THEN s
    ELSE CASE t.k = "fund"  ->
                LET u == restore_fund(s, t.w, g) IN Store(u.s, a, u.v)
           [] t.k = "class" -> deserialize_cb(s, t, a, g)
           [] t.k = "self"  -> deserialize_cb(s, self, a, g)

\* restore(void (T::*cb)(Blob &)) for each callback among the arguments:
\*     (static_cast<T*>(vptr_.back())->*cb)(*this);
restoreArgs_cb(s, d, a, i, g) ==
    IF i > Len(d.args) \/ ~Ok(s) THEN s
    ELSE LET t == d.args[i]
             h == s.vptr_[Len(s.vptr_)]
             w == IF t.k # "cb" THEN restore_cb(s, t, a \o <<i>>, d, g)
                  ELSE IF s.vptr_ = <<>> THEN Throw(s, "SIGSEGV")
                  ELSE ptr_provider_v(Called(s, h, a), d, h, t.ms, 1, g)
         IN  restoreArgs_cb(w, d, a, i + 1, g)

\* deserialize(Blob &) of SERDES(CLASS, Args...)
deserialize_cb(s, d, a, g) ==
    pop_restored(restoreArgs_cb(push_host_v(s, a), d, a, 1, g))

\* ptr_provider(Blob &b), this = h:
\*     bool ptr_saved;
\*     if(b.restore(ptr_saved)) { l = new DataTreePtr; b.restore(*l); }
ptr_provider_v(s, d, h, ms, i, g) ==
    IF i > Len(ms) \/ ~Ok(s) THEN s
    ELSE LET u  == restore_fund(s, 1, g)
             o  == FreshObj(u.s.mem)
             l  == Store(Alloc(u.s, o, NewHost(d)), h \o <<ms[i]>>, <<o>>)
             w  == IF ~Ok(u.s) \/ u.v = <<0>> THEN u.s
                   ELSE restore_cb(l, d, <<o>>, d, g)
         IN  ptr_provider_v(w, d, h, ms, i + 1, g)

-----------------------------------------------------------------------------
(* SpecHost: the data_tree_ptr test, Blob b(src); b.restore(dst); with the  *)
(* bytes also coming back from a file that may have been cut short.         *)

\* the most hosts a Blob is left with by restores that threw
MaxHosts == 3

\* the depth of the trees of src below their root
HostDepth == 1

\* the tree of Place() with int x
WideX(m) ==
    [o \in DOMAIN m |->
        IF m[o] = <<>> THEN m[o] ELSE <<NatToLE(o, 4), m[o][2], m[o][3]>>]

\* src and what it owns: a tree of DataTreePtr or SplitTreePtr at object 1, or
\* a WrapTreePtr there that holds a tree by value and may own one more
\* WrapTreePtr; dst is object 2
HostMems(d) ==
    IF d # WrapTreePtr
    THEN {WideX(Place((1 :> <<>>) @@ (2 :> <<>>), 1, sh))
            : sh \in Shapes(HostDepth)}
    ELSE UNION {LET m == WideX(Place((1 :> <<>>) @@ (2 :> <<>>), 1, sh))
                    o == FreshObj(m)
                IN  {[m EXCEPT ![1] = <<m[1], NULL, NULL>>],
                     (o :> <<<<NatToLE(o, 4), NULL, NULL>>, NULL, NULL>>) @@
                        [m EXCEPT ![1] = <<m[1], NULL, <<o>>>>]}
                  : sh \in Shapes(HostDepth)}

InitHost ==
    /\ typ \in {DataTreePtr, SplitTreePtr, WrapTreePtr}
    /\ \E m \in HostMems(typ) :
          /\ Is([NewBlob EXCEPT !.mem = [m EXCEPT ![2] = NewHost(typ)]])
          /\ ret = [file |-> <<>>, calls |-> <<>>,
                    mem0 |-> [m EXCEPT ![2] = NewHost(typ)]]
    /\ op = NoOp
    /\ pc = "start"

\* Blob b(src);
SerializeCb ==
    /\ pc = "start"
    /\ LET w == append_cb(Traced(Cur), typ, <<1>>, typ)
       IN  /\ Becomes(w)
           /\ ret' = [ret EXCEPT !.file = w.blob_, !.calls = w.calls]
    /\ op' = [name |-> "append_cb", arg |-> <<1>>]
    /\ pc' = "appended"
    /\ UNCHANGED typ

\* b.restore(dst);
DeserializeCb ==
    /\ pc = "appended"
    /\ \E g \in Overread :
          LET w == restore_cb(Traced(Cur), typ, <<2>>, typ, g)
          IN  /\ Becomes(w)
              /\ ret' = [ret EXCEPT !.calls = w.calls]
    /\ op' = [name |-> "restore_cb", arg |-> <<2>>]
    /\ pc' = "restored"
    /\ UNCHANGED typ

\* the exception of a restore is caught, dst is given up for a new one, and
\* the same Blob is filled from the file again, which may end early:
\*     b.reset(); is >> b;
ReadFile ==
    /\ pc = "appended" \/ (pc = "restored" /\ err # "none")
    /\ Len(vptr_) < MaxHosts
    /\ \E n \in 0..Len(ret.file) :
          Becomes([Cur EXCEPT !.blob_ = SubSeq(ret.file, 1, n),
                              !.offset_ = 0, !.mem = ret.mem0,
                              !.err = "none"])
    /\ op' = [name |-> "read", arg |-> <<>>]
    /\ pc' = "appended"
    /\ UNCHANGED <<ret, typ>>

NextHost ==
    \/ SerializeCb
    \/ DeserializeCb
    \/ ReadFile

SpecHost == InitHost /\ [][NextHost]_vars

\* C29: a pointer-provider callback always runs on the instance whose
\* serialize() or deserialize() is the innermost one in progress, also after a
\* nested composite or a recursive child has been handled in between; and a
\* top-level append or restore that returns normally leaves the append-host
\* and restore-host stacks as deep as it found them.
C29_HostStack ==
    [][op'.name \in {"append_cb", "restore_cb"} =>
         /\ \A i \in DOMAIN ret'.calls : ret'.calls[i].on = ret'.calls[i].of
         /\ err' = "none" =>
               /\ Len(cptr_') = Len(cptr_)
               /\ Len(vptr_') = Len(vptr_)]_vars

\* a restore has returned normally on a Blob that an earlier restore left
\* with hosts on its stack, and the provider of dst ran after the provider of
\* a nested or a child instance
C29_Witness ==
    /\ op.name = "restore_cb" /\ err = "none"
    /\ vptr_ # <<>>
    /\ \E i, j \in DOMAIN ret.calls :
          /\ i < j
          /\ ret.calls[i].of # <<2>>
          /\ ret.calls[j].of = <<2>>

-----------------------------------------------------------------------------
(* SpecFmt: the bytes of a tree, by RSERDES and by a pointer provider.      *)

CbTypes == {DataTreePtr, SplitTreePtr, WrapTreePtr}

NextFmt ==
    \/ typ \in CbTypes /\ NextHost
    \/ typ \notin CbTypes /\ NextPtr

SpecFmt == (InitTrees \/ InitHost) /\ [][NextFmt]_vars

\* the bytes of the instance of d at a when each pointer member is a flag
\* followed at once, if set, by the bytes of the instance it points to
RECURSIVE FlagFormat(_, _, _)
FlagFormat(m, d, a) ==
    LET P(i) == LET X == GetAt(m, a \o <<i>>)
                IN  IF X = NULL THEN <<0>> ELSE <<1>> \o FlagFormat(m, d, X)
    IN  (IF d.args[1].k = "fund" THEN GetAt(m, a \o <<1>>)
         ELSE FlagFormat(m, d.args[1], a \o <<1>>))
        \o P(2) \o P(3)

\* the bytes of the instance at a when each pointer member is its id of the
\* dictionary pu, and the instances pointed to follow after the members
RECURSIVE IdFormat(_, _, _)
IdFormat(m, pu, a) ==
    LET l == GetAt(m, a \o <<2>>)
        r == GetAt(m, a \o <<3>>)
    IN  GetAt(m, a \o <<1>>) \o NatToLE(pu[l], 4) \o NatToLE(pu[r], 4)
        \o (IF l = NULL THEN <<>> ELSE IdFormat(m, pu, l))
        \o (IF r = NULL THEN <<>> ELSE IdFormat(m, pu, r))

\* a tree has been serialised
Written(macro) ==
    /\ pc = "appended" /\ err = "none" /\ op.name \in {"append", "append_cb"}
    /\ typ \in CbTypes \cup {TreeNode}
    /\ typ.macro = macro \/ (macro = "cb" /\ typ \in CbTypes)

\* C23 as stated: every recursive pointer field is one boolean presence flag
\* followed immediately, if and only if the flag is true, by the complete
\* inline serialization of the pointed-to instance; no dictionary id is
\* written for it.
C23_FlagFormat ==
    (Written("cb") \/ Written("RSERDES")) => blob_ = FlagFormat(mem, typ, <<1>>)

\* C23: a recursive pointer field that a pointer-provider callback looks
\* after is one boolean flag followed immediately, if and only if it is
\* true, by the inline serialization of the pointed-to instance, and no id is
\* written; a recursive pointer field of RSERDES is written among the
\* arguments as its id of the dictionary (0 for null), and the inline
\* serializations of the instances pointed to follow after all the arguments,
\* in REMIND() order.
C23_RecursiveFormat ==
    /\ Written("cb") => blob_ = FlagFormat(mem, typ, <<1>>)
    /\ Written("RSERDES") =>
          /\ blob_ = IdFormat(mem, mpu_, <<1>>)
          /\ mpu_[NULL] = 0

\* an RSERDES tree whose root has a left child and no right child has been
\* written: five bytes of ids stand where two flags would
C23_Witness ==
    /\ Written("RSERDES")
    /\ GetAt(mem, <<1, 2>>) # NULL
    /\ GetAt(mem, <<1, 3>>) = NULL
    /\ SubSeq(blob_, 2, 9) = <<1, 0, 0, 0, 0, 0, 0, 0>>

-----------------------------------------------------------------------------
(* SpecDst: one value is written, and its bytes are restored twice, into a  *)
(* destination that was in use before and into a default-constructed one.   *)

\* struct { uint8_t k; uint8_t v; SERDES(k, v) }: a vector of these is
\* written as a map of uint8_t to uint8_t is, pair after pair
KeyValue == TClass("SERDES", <<>>, <<>>, <<TFund(1), TFund(1)>>)

\* the type written (w) and the type restored (r)
DstTypes ==
    {[w |-> TSeq(KeyValue), r |-> TMap(TFund(1), TFund(1))]}
    \cup {[w |-> t, r |-> t] :
            t \in {TSeq(TFund(2)), TStr, TArr(TFund(2), 2), TreeNode}}

\* src is object 1, the destination used before object 2, the fresh one 3;
\* ret keeps what object 2 held before
InitDst ==
    /\ typ \in DstTypes
    /\ IF typ.r = TreeNode
       THEN \E sh \in Shapes(MaxDepth), old \in {NULL, Stale} :
               Is([NewBlob EXCEPT !.mem =
                     Place((1 :> <<>>) @@ (2 :> <<<<0>>, old, old>>)
                           @@ (3 :> Default(TreeNode)), 1, sh)])
       ELSE \E src \in Values(typ.w), old \in Values(typ.r) :
               Is([NewBlob EXCEPT !.mem =
                     (1 :> src) @@ (2 :> old) @@ (3 :> Default(typ.r))])
    /\ op = NoOp
    /\ ret = mem[2]
    /\ pc = "start"

\* b.append(src);
AppendAs ==
    /\ pc = "start"
    /\ Becomes(append(Cur, typ.w, <<1>>, typ.w))
    /\ op' = [name |-> "append", arg |-> <<1>>]
    /\ pc' = "appended"
    /\ UNCHANGED <<ret, typ>>

\* b.reset();
ResetAt(from, to) ==
    /\ pc = from
    /\ err = "none"
    /\ Becomes(reset(Cur))
    /\ op' = [name |-> "reset", arg |-> <<>>]
    /\ pc' = to
    /\ UNCHANGED <<ret, typ>>

\* b.restore(dst);
RestoreInto(from, dst, to) ==
    /\ pc = from
    /\ err = "none"
    /\ \E g \in Overread : Becomes(restore(Cur, typ.r, dst, typ.r, g))
    /\ op' = [name |-> "restore", arg |-> dst]
    /\ pc' = to
    /\ UNCHANGED <<ret, typ>>

NextDst ==
    \/ AppendAs
    \/ ResetAt("appended", "loaded")
    \/ RestoreInto("loaded", <<2>>, "restoredA")
    \/ ResetAt("restoredA", "reloaded")
    \/ RestoreInto("reloaded", <<3>>, "restoredB")

SpecDst == InitDst /\ [][NextDst]_vars

\* the value the map c holds for key k
ValueAt(c, k) == c[CHOOSE i \in 1..Len(c) : c[i][1] = k][2]

\* the stream written from src holds two pairs with the same key
TwoPairsOneKey ==
    /\ typ.r.k = "map"
    /\ \E i, j \in 1..Len(mem[1]) : i < j /\ mem[1][i][1] = mem[1][j][1]

\* C24 as stated: when the encoded stream of an associative container holds
\* two pairs with the same key, the value held for that key after restore is
\* the value of the last pair decoded, for every such stream.
C24_LastPairWins ==
    (pc = "restoredB" /\ err = "none" /\ TwoPairsOneKey) =>
       \A i \in 1..Len(mem[1]) :
          (\A j \in (i + 1)..Len(mem[1]) : mem[1][j][1] # mem[1][i][1])
          => ValueAt(mem[3], mem[1][i][1]) = mem[1][i][2]

\* C24: when the encoded stream of an associative container holds two pairs
\* with the same key, the value held for that key after restore into an empty
\* std::map is the value of the first pair decoded (the later insertion does
\* not overwrite the earlier one), for every such stream.
C24_FirstPairWins ==
    (pc = "restoredB" /\ err = "none" /\ TwoPairsOneKey) =>
       \A i \in 1..Len(mem[1]) :
          (\A j \in 1..(i - 1) : mem[1][j][1] # mem[1][i][1])
          => ValueAt(mem[3], mem[1][i][1]) = mem[1][i][2]

\* a stream of two pairs with one key and two values has been restored into
\* an empty map, which holds one pair
C24_Witness ==
    /\ pc = "restoredB" /\ err = "none" /\ TwoPairsOneKey
    /\ Len(mem[1]) = 2
    /\ mem[1][1][2] # mem[1][2][2]
    /\ Len(mem[3]) = 1

\* the bytes of the elements 1..n of the container c, one after the other
RECURSIVE ElementBytes(_, _, _)
ElementBytes(t, c, n) ==
    IF n = 0 THEN <<>>
    ELSE ElementBytes(t, c, n - 1)
         \o (IF t.k = "fund" THEN c[n] ELSE c[n][1] \o c[n][2])

\* C25: appending a sequence container or string writes its element count with
\* the counter codec and then every element in iteration order with no
\* padding; restoring one leaves the destination with exactly the decoded
\* number of elements, whatever its size before the restore, filled in order
\* from the stream; a fixed-size array writes and reads its elements in index
\* order with no count.
C25_SequenceLayout ==
    /\ (pc = "appended" /\ typ.w.k \in {"vec", "str"}) =>
          blob_ = CntrBytes(NatToLE(Len(mem[1]), 8))
                  \o ElementBytes(IF typ.w.k = "str" THEN TFund(1) ELSE typ.w.t,
                                  mem[1], Len(mem[1]))
    /\ (pc = "appended" /\ typ.w.k = "arr") =>
          blob_ = ElementBytes(typ.w.t, mem[1], typ.w.n)
    /\ (pc = "restoredA" /\ typ.r.k \in {"vec", "str", "arr"}) =>
          /\ err = "none"
          /\ mem[2] = mem[1]
          /\ offset_ = Len(blob_)

\* a vector of two elements has been restored from the bytes of a vector of
\* one other element
C25_Witness ==
    /\ pc = "restoredA" /\ typ.r = TSeq(TFund(2))
    /\ Len(ret) = 2 /\ Len(mem[2]) = 1
    /\ mem[2][1] # ret[1]

\* what the two destinations hold is the same: equal values, or for trees the
\* same shape with the same x in every node
SameResult ==
    IF typ.r = TreeNode THEN SameTree(mem, <<2>>, <<3>>) ELSE mem[2] = mem[3]

\* C28: restoring the same bytes into two destinations of the same type that
\* differ in their prior state yields equal results: both restores return
\* normally, a map that already held entries ends up holding exactly the
\* decoded pairs, and an RSERDES destination whose recursive pointer fields
\* were non-null before ends up with the pointer structure of one restored
\* into a default-constructed object.
C28_DestinationIndependence ==
    /\ pc = "restoredA" => err = "none"
    /\ (pc = "restoredB" /\ err = "none") => SameResult

\* the same for destinations that resize() or an element-wise copy overwrite
\* in full: vectors, strings and arrays
C28_Overwritten ==
    typ.r.k \in {"vec", "str", "arr"} => C28_DestinationIndependence

-----------------------------------------------------------------------------
(* SpecApp: the appends of Spec, and those of SpecPtr followed by one more   *)
(* append of src to the same Blob.                                           *)

\* b.append(src) once more, on the Blob as the calls before left it; an
\* UnaccountedPointer of the first append has been caught
AppendAgain ==
    /\ pc \in {"appended", "loaded", "restored"}
    /\ err \in {"none", "UnaccountedPointer"}
    /\ Becomes(append([Cur EXCEPT !.err = "none"], typ, <<1>>, typ))
    /\ op' = [name |-> "append", arg |-> <<1>>]
    /\ pc' = "again"
    /\ UNCHANGED <<ret, typ>>

NextApp ==
    \/ pc = "buffer" /\ Next
    \/ pc # "buffer" /\ NextPtr
    \/ pc # "buffer" /\ AppendAgain

SpecApp == (Init \/ InitPtr) /\ [][NextApp]_vars

\* C26: every append operation, also one that fails part-way, leaves the
\* previous byte content as an unchanged prefix of the new content,
\* append_raw(ptr, n) adds exactly the n given bytes at the end, and no append
\* operation changes the read cursor.
C26_AppendGrows ==
    [][op'.name \in {"append", "append_raw"} =>
         /\ Len(blob_') >= Len(blob_)
         /\ SubSeq(blob_', 1, Len(blob_)) = blob_
         /\ offset_' = offset_
         /\ op'.name = "append_raw" => blob_' = blob_ \o op'.arg]_vars

\* a composite has been appended twice and failed part-way both times: the
\* bytes written before the second failure follow those written before the
\* first
C26_Witness ==
    /\ pc = "again" /\ err = "UnaccountedPointer"
    /\ blob_ # <<>>
    /\ \E n \in 1..Len(blob_) :
          /\ 2 * n = Len(blob_)
          /\ SubSeq(blob_, 1, n) = SubSeq(blob_, n + 1, 2 * n)

-----------------------------------------------------------------------------
(* The reads of the id-to-address list, in SpecDict. *)

\* C27: whenever remind() writes a slot recorded under id k, k is smaller than
\* the number of addresses in the dictionary, for every pending pointer table
\* and dictionary that pass the MissingPointers check, tables with sparse ids
\* included.
C27_ResolutionInRange ==
    [][(/\ op'.name = "remind"
        /\ err = "none"
        /\ Cardinality(DOMAIN mpl_) <= Len(vp_))
       => \A k \in DOMAIN mpl_ : mpl_[k] # {} => VpInRange(Cur, k)]_vars

-----------------------------------------------------------------------------
(* SpecAddr: one pointer graph at two places in memory, each written to a   *)
(* Blob of its own.                                                          *)

\* the address p where the objects numbered o are the objects numbered f[o]
Moved(p, f) == IF p = NULL THEN NULL ELSE <<f[p[1]]>> \o Tail(p)

\* the graph of peers g (object 1) once more as object 2
GraphTwice(g) ==
    (1 :> g) @@
    (2 :> [i \in 1..Len(g) |-> <<Moved(g[i][1], (1 :> 2)), g[i][2]>>])

\* the tree in the objects 1..n of m once more in n+1..2n, in the opposite
\* order of addresses, its root being object 2n
TreeTwice(m) ==
    LET n == SetMax(DOMAIN m)
        f == [o \in 1..n |-> 2 * n + 1 - o]
    IN  m @@ [o \in (n + 1)..(2 * n) |->
                 LET x == m[2 * n + 1 - o]
                 IN  <<x[1], Moved(x[2], f), Moved(x[3], f)>>]

InitAddr ==
    /\ \/ \E macro \in {"SERDES", "MSERDES"},
             ml \in SeqsUpTo({AddrOf(<<i>>) : i \in 1..MaxLen}, MaxLen) :
             \E peers \in [1..MaxLen ->
                              {NULL} \cup {<<1, i>> : i \in 1..MaxLen}
                              \cup (IF macro = "MSERDES"
                                    THEN {<<1, i, 2>> : i \in 1..MaxLen}
                                    ELSE {})] :
                /\ typ = Graph(ml, macro)
                /\ Is([NewBlob EXCEPT !.mem =
                         GraphTwice([i \in 1..MaxLen |-> <<peers[i], <<i>>>>])])
       \/ \E sh \in Shapes(MaxDepth) :
             /\ typ = TreeNode
             /\ Is([NewBlob EXCEPT !.mem = TreeTwice(Place((1 :> <<>>), 1, sh))])
    /\ op = NoOp
    /\ ret = [file |-> <<>>, cut |-> <<>>]
    /\ pc = "start"

NextAddr ==
    \/ Write("start", 1, "one")
    \/ Write("one", SetMax(DOMAIN mem), "written")

SpecAddr == InitAddr /\ [][NextAddr]_vars

\* C30: two pointer graphs of the same shape, the same non-pointer values and
\* the same anchor declaration order that live at different addresses are
\* written to two fresh Blobs as the same bytes.
C30_AddressIndependence ==
    (pc = "written" /\ err = "none") =>
        SubSeq(ret.file, 1, ret.cut[1])
        = SubSeq(ret.file, ret.cut[1] + 1, ret.cut[2])

\* both graphs have been written, and the first has a pointer that is not
\* null, to an address the second does not use
C30_Witness ==
    /\ pc = "written" /\ err = "none"
    /\ ret.cut[1] > 0 /\ ret.cut[2] = 2 * ret.cut[1]
    /\ \E a \in {<<1, 1, 1>>, <<1, 2>>} :
          /\ Live(mem, a)
          /\ GetAt(mem, a) # NULL
          /\ GetAt(mem, a) # GetAt(mem, <<SetMax(DOMAIN mem)>> \o Tail(a))

=============================================================================
